---- MODULE Spec2Model ----
(***************************************************************************)
(* A model of the coop task library: the task/promise continuation         *)
(* handoff (include/coop/task.hpp), the scheduler's enqueue policy         *)
(* (src/scheduler.cpp) and the per-CPU work queues (src/work_queue.cpp).   *)
(*                                                                         *)
(* Several programs run on it; the first two are taken from test/test.cpp. *)
(*                                                                         *)
(* Spec: the "chained continuation" test.  The main thread starts a        *)
(* joinable root task, joins it and drops its handle; the root awaits a    *)
(* task that itself awaits two leaf tasks and returns the sum of their     *)
(* results.  Every task suspends once through suspend().                   *)
(*                                                                         *)
(* SpecSched: the "test suspend" test, several times over.  The main       *)
(* thread starts independent joinable jobs that each suspend once, with    *)
(* every affinity mask and priority a caller can pass.                     *)
(*                                                                         *)
(* SpecEvent: tasks that wait on events, the event thread and the          *)
(* destructor of the scheduler.  SpecGrow: the same with a small initial   *)
(* capacity, so that the event arrays grow.  SpecOwner: moves and          *)
(* destruction of task handles.  SpecCalls: single functions of the        *)
(* library applied to arguments.                                           *)
(***************************************************************************)
EXTENDS Integers, Sequences, FiniteSets, TLC

(***************************************************************************)
(* Bounds of the model.                                                    *)
(***************************************************************************)
\* cpu_count_: std::thread::hardware_concurrency() of the modelled machine
NumCpus == 2
\* largest priority value a caller passes to suspend()/schedule()
MaxPriority == 2
\* largest initial value of the rotation counter update_ (std::rand())
MaxSeed == 1
\* event_capacity_ at the start of the program that makes the arrays grow
SmallEventCapacity == 2
\* largest value of update_ the fallback selection is applied to on its own
MaxCounter == 15
\* the largest number of handles of one wait_many call of the calls program
MaxWaitCount == 3

(***************************************************************************)
(* Program constants.                                                      *)
(***************************************************************************)
COOP_PRIORITY_COUNT == 2
\* std::numbers::phi_v<float> as the fraction PhiNum / PhiDen
PhiNum == 1618034
PhiDen == 1000000

cpu_count_ == NumCpus
Workers == 0 .. (cpu_count_ - 1)
\* the thread that runs the test case (not a worker)
MainThread == cpu_count_
Threads == Workers \cup {MainThread}

Null == "null"
Undef == -1

(***************************************************************************)
(* Bit operations on affinity masks (uint64_t in the source).              *)
(***************************************************************************)
MaskWidth == cpu_count_ + 2
Pow2(n) == 2 ^ n
Bit(m, i) == (m \div Pow2(i)) % 2 = 1
BitSet(m) == {i \in 0 .. (MaskWidth - 1) : Bit(m, i)}
popcount(m) == Cardinality(BitSet(m))
MinOf(S) == CHOOSE x \in S : \A y \in S : x <= y
countr_zero(m) == MinOf(BitSet(m))
\* m & ~(1 << i)
ClearBit(m, i) == IF Bit(m, i) THEN m - Pow2(i) ELSE m

(***************************************************************************)
(* The programs: the tasks of the "chained continuation" test and the      *)
(* independent jobs of the scheduling program.                             *)
(***************************************************************************)
ChainTasks == {"root", "mid", "leaf1", "leaf2"}
Jobs == {"job1", "job2"}
\* the tasks of the event program: wait_for_event(event), one per event
Waiters == {"waiter1", "waiter2"}
Tasks == ChainTasks \cup Jobs \cup Waiters
\* task_t<void, true>: joined with join(); every other task is awaited
Joinable == [t \in Tasks |-> t \notin {"mid", "leaf1", "leaf2"}]
\* the order in which the main thread starts the jobs
JobOrder == <<"job1", "job2">>

\* inputs of suspend(): affinity masks and priorities
Masks == 0 .. (Pow2(cpu_count_ + 1) - 1)
Priorities == 0 .. MaxPriority
\* the chain test passes one-CPU masks (COOP_SUSPEND4) or none
ChainMasks == {0} \cup {Pow2(i) : i \in Workers}

\* statements of a coroutine body; a suspend names the masks and priorities
\* its call may pass
Suspend(ms, ps) == [op |-> "suspend", c |-> Null, ms |-> ms, ps |-> ps]
Call(c) == [op |-> "call", c |-> c, ms |-> {}, ps |-> {}]
Await(c) == [op |-> "await", c |-> c, ms |-> {}, ps |-> {}]
Drop(c) == [op |-> "drop", c |-> c, ms |-> {}, ps |-> {}]
Return == [op |-> "ret", c |-> Null, ms |-> {}, ps |-> {}]
\* co_await event
Wait(e) == [op |-> "wait", c |-> e, ms |-> {}, ps |-> {}]

\* the events of the event program and the scheduler's own wake event
Events == {"e1", "e2"}
WakeEvent == "coop_main_event"
EventOf == [t \in Waiters |-> IF t = "waiter1" THEN "e1" ELSE "e2"]
\* event_t::set_cpu_affinity / set_priority of each event
EventAffinity == [e \in Events |-> IF e = "e1" THEN Pow2(0) ELSE Pow2(cpu_count_ - 1)]
EventPriority == [e \in Events |-> IF e = "e1" THEN 0 ELSE COOP_PRIORITY_COUNT - 1]

\* the body of each coroutine, one entry per statement
Body == [t \in Tasks |->
           CASE t = "root" -> <<Suspend(ChainMasks, {0}), Call("mid"), Await("mid"),
                                Drop("mid"), Return>>
             [] t = "mid" -> <<Suspend(ChainMasks, {0}), Call("leaf1"), Call("leaf2"),
                               Await("leaf1"), Await("leaf2"), Return>>
             [] t = "leaf1" -> <<Suspend(ChainMasks, {0}), Return>>
             [] t = "leaf2" -> <<Suspend(ChainMasks, {0, 1}), Return>>
             [] t \in Waiters -> <<Wait(EventOf[t]), Return>>
             [] OTHER -> <<Suspend(Masks, Priorities), Return>>]
\* the constant a task adds to what it awaited in its co_return
RetConst == [t \in Tasks |-> CASE t = "leaf1" -> 1 [] t = "leaf2" -> 2 [] OTHER -> 0]
\* the task handles that are locals of a coroutine frame and die with it
Locals == [t \in Tasks |-> IF t = "mid" THEN {"leaf1", "leaf2"} ELSE {}]


VARIABLES
    frame,          \* task -> "none" | "live" | "freed": the coroutine frame
    st,             \* task -> "running" | "suspended" | "final": the coroutine
    ip,             \* task -> index of its current statement in Body
    ph,             \* task -> step inside the current statement
    acc,            \* task -> sum of the results it has read with co_await
    continuation,   \* promise_base_t::continuation
    flag,           \* promise_base_t::flag
    data,           \* promise_type::data
    join_sem,       \* task_base_t<true>::promise_type::join_sem
    stack,          \* thread -> the coroutines it is executing, innermost last
    wpc,            \* worker -> position in the worker loop
    queues_,        \* work_queue_t::queues_ of every CPU
    sem_,           \* work_queue_t::sem_ of every CPU
    update_,        \* scheduler_t::update_
    mpc,            \* position of the main thread in the test case
    lost,           \* handles written outside every queue (out of bounds)
    ub,             \* the execution has had undefined behaviour
    halted,         \* the process has crashed
    continued,      \* task -> times its awaiter went past co_await on it
    nsched,         \* task -> calls of schedule() with its handle
    placed,         \* task -> arguments and outcome of its last schedule()
    resumedBy,      \* task -> the worker that dequeued it last, or -1
    took,           \* worker -> what its last dequeue saw and took
    scan_i,         \* worker -> the sub-queue its scan tries next
    enqLog,         \* cpu, priority -> handles in the order they were enqueued
    deqLog,         \* cpu, priority -> handles in the order they were resumed
    active_,        \* scheduler_t::active_
    wq_active,      \* work_queue_t::active_ of every CPU
    epc,            \* position of the event thread
    ev,             \* locals of the event thread: index, size, queue
    signaled,       \* event -> its handle is in the signaled state
    events_,        \* scheduler_t::events_ (the wait set), from index 0
    event_continuations_,  \* scheduler_t::event_continuations_, from index 0
    event_count_,   \* scheduler_t::event_count_
    event_capacity_,       \* scheduler_t::event_capacity_
    pending_events_,       \* scheduler_t::pending_events_
    dpc,            \* position of scheduler_t::~scheduler_t
    dq,             \* the work queue ~scheduler_t is destroying
    sigdone,        \* the events the main thread has signaled
    joined,         \* the waiters the main thread has joined
    dispatched,     \* the dispatches of the event thread, in order
    coroutine_,     \* task_t::coroutine_ of every task handle object
    alive,          \* task handle object -> it is within its lifetime
    moved,          \* task handle object -> it was moved from and not assigned since
    hframe,         \* coroutine frame -> "none" | "live" | "freed"
    call,           \* the library function applied last, its arguments and result
    destroys        \* coroutine frame -> calls of destroy() on it

vars == <<frame, st, ip, ph, acc, continuation, flag, data, join_sem, stack,
          wpc, queues_, sem_, update_, mpc, lost, ub, halted, continued,
          nsched, placed, resumedBy, took, scan_i, enqLog, deqLog,
          active_, wq_active, epc, ev, signaled, events_, event_continuations_,
          event_count_, event_capacity_, pending_events_, dpc, dq, sigdone,
          joined, dispatched, coroutine_, alive, moved, hframe, destroys,
          call>>

promiseVars == <<continuation, flag, data, join_sem>>
queueVars == <<queues_, sem_, update_, lost>>
histVars == <<continued, nsched, placed, resumedBy, took, enqLog, deqLog>>
eventVars == <<active_, wq_active, epc, ev, signaled, events_, event_continuations_,
               event_count_, event_capacity_, pending_events_, dpc, dq, sigdone,
          joined, dispatched>>

NoPlace == [m |-> 0, p |-> 0, q |-> -1, s |-> -1, by |-> -1, fb |-> FALSE]
ownerVars == <<coroutine_, alive, moved, hframe, destroys>>

\* the task handle objects and the coroutine frames of the ownership program
Handles == {"h1", "h2", "h3"}
Frames == {"f1", "f2"}

\* no function has been applied yet
NoCall == [fn |-> "none", a |-> 0, b |-> 0, status |-> "none", r |-> 0]

NoTake == [h |-> Null, from |-> -1, hi |-> 0, lo |-> 0, missed |-> {}]

\* event_capacity_ = 32
InitialEventCapacity == 32
\* a default-initialized event_continuation_t: null handle, null event,
\* cpu_affinity and priority indeterminate
NullRec == [coroutine |-> Null, event |-> Null, cpu_affinity |-> Undef, priority |-> Undef]
NoEv == [index |-> 0, size |-> 0, q |-> -1]

\* the state after the scheduler's constructor, with room for cap events
InitState(cap) ==
    /\ frame = [t \in Tasks |-> "none"]
    /\ st = [t \in Tasks |-> "suspended"]
    /\ ip = [t \in Tasks |-> 1]
    /\ ph = [t \in Tasks |-> "go"]
    /\ acc = [t \in Tasks |-> 0]
    /\ continuation = [t \in Tasks |-> Null]
    /\ flag = [t \in Tasks |-> FALSE]
    /\ data = [t \in Tasks |-> Undef]
    /\ join_sem = [t \in Tasks |-> 0]
    /\ stack = [th \in Threads |-> <<>>]
    /\ wpc = [w \in Workers |-> "acquire"]
    /\ queues_ = [w \in Workers |-> [i \in 0 .. (COOP_PRIORITY_COUNT - 1) |-> <<>>]]
    /\ sem_ = [w \in Workers |-> 0]
    /\ update_ \in 0 .. MaxSeed
    /\ lost = {}
    /\ ub = FALSE
    /\ halted = FALSE
    /\ continued = [t \in Tasks |-> 0]
    /\ nsched = [t \in Tasks |-> 0]
    /\ placed = [t \in Tasks |-> NoPlace]
    /\ resumedBy = [t \in Tasks |-> -1]
    /\ took = [w \in Workers |-> NoTake]
    /\ scan_i = [w \in Workers |-> COOP_PRIORITY_COUNT - 1]
    /\ enqLog = [w \in Workers |-> [p \in Priorities |-> <<>>]]
    /\ deqLog = [w \in Workers |-> [p \in Priorities |-> <<>>]]
    /\ active_ = FALSE
    /\ wq_active = [w \in Workers |-> TRUE]
    /\ epc = "start"
    /\ ev = NoEv
    /\ signaled = [e \in Events \cup {WakeEvent} |-> FALSE]
    /\ events_ = [i \in 0 .. (cap - 1) |-> IF i = 0 THEN WakeEvent ELSE Null]
    /\ event_continuations_ = [i \in 0 .. (cap - 2) |-> NullRec]
    /\ event_count_ = 1
    /\ event_capacity_ = cap
    /\ pending_events_ = <<>>
    /\ dpc = "none"
    /\ dq = 0
    /\ sigdone = {}
    /\ joined = {}
    /\ dispatched = <<>>
    /\ coroutine_ = [h \in Handles |-> Null]
    /\ alive = [h \in Handles |-> FALSE]
    /\ moved = [h \in Handles |-> FALSE]
    /\ hframe = [f \in Frames |-> "none"]
    /\ destroys = [f \in Frames |-> 0]
    /\ call = NoCall

InitFrames == InitState(InitialEventCapacity)

\* the chain program
Init ==
    /\ InitFrames
    /\ mpc = "call"

\* the scheduling program
InitSched ==
    /\ InitFrames
    /\ mpc = "spawn"

\* the event program
InitEvent ==
    /\ InitFrames
    /\ mpc = "event"

\* the ownership program
InitOwner ==
    /\ InitFrames
    /\ mpc = "owner"

\* the event program on a scheduler whose arrays start with room for
\* SmallEventCapacity events instead of 32, so that two registrations make
\* them grow
InitGrow ==
    /\ InitState(SmallEventCapacity)
    /\ mpc = "event"

\* the program that applies single functions of the library to arguments
InitCalls ==
    /\ InitFrames
    /\ mpc = "calls"

(***************************************************************************)
(* The MPMC queue (detail/concurrentqueue.h): an unbounded FIFO of         *)
(* handles with enqueue, try_dequeue and size_approx.                      *)
(***************************************************************************)
\* a faulty queue: it pushes at the front
mpmc_enqueue_front(queue, h) == <<h>> \o queue

mpmc_enqueue(queue, h) == Append(queue, h)
mpmc_can_dequeue(queue) == queue # <<>>
mpmc_front(queue) == Head(queue)
\* a faulty try_dequeue: it leaves the handle it returns in the queue
mpmc_pop_keeps(queue) == queue

mpmc_pop(queue) == Tail(queue)
mpmc_size_approx(queue) == Len(queue)
\* try_dequeue_bulk(out, max): how many elements it takes, and what it leaves
mpmc_bulk_size(queue, max) == IF Len(queue) < max THEN Len(queue) ELSE max
mpmc_bulk_rest(queue, n) == SubSeq(queue, n + 1, Len(queue))

(***************************************************************************)
(* scheduler_t::schedule(coroutine, cpu_affinity, priority)                *)
(***************************************************************************)
\* cpu_mask_ = (1 << (cpu_count_ + 1)) - 1
cpu_mask_ == Pow2(cpu_count_ + 1) - 1

\* if (cpu_affinity == 0) cpu_affinity = ~cpu_affinity & cpu_mask_
Canonical(m) == IF m = 0 THEN cpu_mask_ ELSE m

\* work_queue_t::size_approx(): the sum over the sub-queues
size_approx(w) ==
    mpmc_size_approx(queues_[w][0]) + mpmc_size_approx(queues_[w][1])

\* a faulty first loop: the test of the affinity bit negated
EmptyDisallowed(a) == {i \in Workers : ~Bit(a, i) /\ size_approx(i) = 0}

\* the CPUs the first loop of schedule() may pick: allowed and empty
EmptyAllowed(a) == {i \in Workers : Bit(a, i) /\ size_approx(i) = 0}

\* static_cast<uint32_t>(update_++ * phi) % popcount(cpu_affinity)
KroneckerIndex(u, a) == ((u * PhiNum) \div PhiDen) % popcount(a)

\* for (i != index) cpu_affinity &= ~(1 << (countr_zero(cpu_affinity) + 1))
RECURSIVE UnsetBits(_, _)
UnsetBits(a, n) ==
    IF n = 0 THEN a ELSE UnsetBits(ClearBit(a, countr_zero(a) + 1), n - 1)

\* the queue index of the fallback path
FallbackQueue(a, u) == countr_zero(UnsetBits(a, KroneckerIndex(u, a)))

\* the queue index schedule() passes to enqueue, for a canonical mask
ChosenQueue(a) ==
    IF EmptyAllowed(a) # {} THEN MinOf(EmptyAllowed(a)) ELSE FallbackQueue(a, update_)

\* priority = std::clamp<uint32_t>(priority, 0, COOP_PRIORITY_COUNT)
clamp(p) == IF p > COOP_PRIORITY_COUNT THEN COOP_PRIORITY_COUNT ELSE p

\* queues_[q].queues_[s] is an element of the arrays
InBounds(q, s) == q \in Workers /\ s \in 0 .. (COOP_PRIORITY_COUNT - 1)

(***************************************************************************)
(* Threads and the coroutines they execute.                                *)
(***************************************************************************)
Top(th) == stack[th][Len(stack[th])]
Popped(th) == [stack EXCEPT ![th] = SubSeq(@, 1, Len(@) - 1)]
Pushed(th, t) == [stack EXCEPT ![th] = Append(@, [task |-> t, mode |-> "run", q |-> -1])]
Replaced(th, e) == [stack EXCEPT ![th] = [@ EXCEPT ![Len(@)] = e]]
Cur(t) == Body[t][ip[t]]

\* thread th is executing coroutine t at statement kind op, step phase
At(th, t, op, phase) ==
    /\ ~halted
    /\ stack[th] # <<>>
    /\ Top(th).task = t
    /\ Top(th).mode = "run"
    /\ ip[t] <= Len(Body[t])
    /\ Cur(t).op = op
    /\ ph[t] = phase

\* some thread is still executing code of t (its body or its final awaiter)
InUse(t) ==
    \E th \in Threads : \E i \in 1 .. Len(stack[th]) :
        stack[th][i].task = t /\ stack[th][i].mode = "run"

(***************************************************************************)
(* Creating a task: the coroutine starts on the calling thread             *)
(* (initial_suspend is suspend_never).                                     *)
(***************************************************************************)
\* a faulty initial_suspend (suspend_always): the caller gets the handle of
\* a coroutine that has not run
StartFrameSuspended(th, c) ==
    /\ frame' = [frame EXCEPT ![c] = "live"]
    /\ st' = [st EXCEPT ![c] = "suspended"]
    /\ stack' = stack

StartFrame(th, c) ==
    /\ frame' = [frame EXCEPT ![c] = "live"]
    /\ st' = [st EXCEPT ![c] = "running"]
    /\ stack' = Pushed(th, c)

\* a coroutine calls a task function: `auto t1 = chain1(5);`
CallTask(th, t) ==
    /\ At(th, t, "call", "go")
    /\ frame[Cur(t).c] = "none"
    /\ StartFrame(th, Cur(t).c)
    /\ ip' = [ip EXCEPT ![t] = @ + 1]
    /\ ub' = (ub \/ frame[t] # "live")
    /\ UNCHANGED eventVars
    /\ UNCHANGED <<ph, acc, promiseVars, wpc, scan_i, queueVars, mpc, halted, histVars>>
    /\ UNCHANGED ownerVars
    /\ UNCHANGED call

(***************************************************************************)
(* co_await suspend(scheduler, cpu_mask, priority)                         *)
(***************************************************************************)
\* a faulty await_ready: the awaiter reports itself ready
suspend_await_ready_true == TRUE

\* suspend()::awaiter_t::await_ready
suspend_await_ready == FALSE

\* awaiter_t::await_suspend up to the push of work_queue_t::enqueue:
\* schedule() picks the queue and enqueue() pushes the handle
SuspendSchedule(th, t, m, p) ==
    LET a == Canonical(m)
        q == ChosenQueue(a)
        s == clamp(p)
    IN  /\ At(th, t, "suspend", "go")
        /\ m \in Cur(t).ms
        /\ p \in Cur(t).ps
        /\ ip' = [ip EXCEPT ![t] = @ + 1]
        /\ IF suspend_await_ready
             THEN UNCHANGED <<st, update_, queues_, lost, stack, nsched, placed, enqLog>>
             ELSE /\ st' = [st EXCEPT ![t] = "suspended"]
                  /\ update_' = IF EmptyAllowed(a) # {} THEN update_ ELSE update_ + 1
                  /\ queues_' = IF InBounds(q, s)
                                  THEN [queues_ EXCEPT ![q][s] = mpmc_enqueue(@, t)]
                                  ELSE queues_
                  /\ lost' = IF InBounds(q, s) THEN lost ELSE lost \cup {t}
                  /\ stack' = Replaced(th, [task |-> t, mode |-> "rel", q |-> q])
                  /\ nsched' = [nsched EXCEPT ![t] = @ + 1]
                  /\ placed' = [placed EXCEPT ![t] =
                                  [m |-> m, p |-> p, q |-> q, s |-> s, by |-> th,
                                   fb |-> (EmptyAllowed(a) = {})]]
                  /\ enqLog' = IF InBounds(q, s)
                                 THEN [enqLog EXCEPT ![q][p] = Append(@, t)]
                                 ELSE enqLog
        /\ ub' = (ub \/ (~suspend_await_ready /\ ~InBounds(q, s)) \/ frame[t] # "live")
        /\ UNCHANGED eventVars
        /\ UNCHANGED <<frame, ph, acc, promiseVars, wpc, scan_i, sem_, mpc, halted,
                       continued, resumedBy, took, deqLog>>
        /\ UNCHANGED ownerVars
        /\ UNCHANGED call

\* the rest of work_queue_t::enqueue: sem_.release(), then await_suspend
\* returns to whoever resumed or called the coroutine
EnqueueRelease(th) ==
    /\ ~halted
    /\ stack[th] # <<>>
    /\ Top(th).mode = "rel"
    /\ sem_' = IF Top(th).q \in Workers
                 THEN [sem_ EXCEPT ![Top(th).q] = @ + 1]
                 ELSE sem_
    /\ stack' = Popped(th)
    /\ UNCHANGED eventVars
    /\ UNCHANGED <<frame, st, ip, ph, acc, promiseVars, wpc, scan_i, queues_, update_,
                   lost, mpc, ub, halted, histVars>>
    /\ UNCHANGED ownerVars
    /\ UNCHANGED call

(***************************************************************************)
(* co_await on a task (task_t::await_ready / await_suspend / await_resume  *)
(* and detail::await_suspend).                                             *)
(***************************************************************************)
\* a faulty await_ready: the test of done() negated
await_ready_negated(c) == st[c] # "final"

\* a faulty await_ready: it never reports the awaited task done
await_ready_never(c) == FALSE

\* task_t::await_ready: !coroutine_ || coroutine_.done()
await_ready(c) == st[c] = "final"

\* a faulty exchange: it stores the negation of what it found
exchange_negating(prior) == ~prior

\* flag.exchange(true, order): the value the flag holds afterwards
exchange(prior) == TRUE

\* a faulty detail::await_suspend: it returns `next` whatever the flag held
AwaiterResumesAlways(prior) == TRUE

\* detail::await_suspend returns `next` (resume the awaiter at once) when its
\* exchange on the flag found it set, and noop_coroutine() otherwise
AwaiterResumesItself(prior) == prior

\* a faulty final_awaiter_t: it takes the continuation whatever the flag held
CompleterReadsAlways(prior) == TRUE

\* final_awaiter_t::await_suspend returns the continuation when its exchange
\* found the flag set and a continuation is installed
CompleterReadsContinuation(prior) == prior
\* a faulty final_awaiter_t: it returns noop_coroutine() whatever it read
CompleterResumesNever(k) == FALSE

\* if (continuation) return continuation
CompleterResumes(k) == k # Null

AwaitReady(th, t) ==
    LET c == Cur(t).c
    IN  /\ At(th, t, "await", "go")
        /\ IF await_ready(c)
             THEN /\ ph' = [ph EXCEPT ![t] = "resume"]
                  /\ continued' = [continued EXCEPT ![c] = @ + 1]
                  /\ st' = st
             ELSE /\ ph' = [ph EXCEPT ![t] = "install"]
                  /\ st' = [st EXCEPT ![t] = "suspended"]
                  /\ continued' = continued
        /\ ub' = (ub \/ frame[t] # "live" \/ frame[c] # "live")
        /\ UNCHANGED eventVars
        /\ UNCHANGED <<frame, ip, acc, promiseVars, stack, wpc, scan_i, queueVars, mpc,
                       halted, nsched, placed, resumedBy, took, enqLog, deqLog>>
        /\ UNCHANGED ownerVars
        /\ UNCHANGED call

\* base.promise().continuation = next
AwaitInstall(th, t) ==
    LET c == Cur(t).c
    IN  /\ At(th, t, "await", "install")
        /\ continuation' = [continuation EXCEPT ![c] = t]
        /\ ph' = [ph EXCEPT ![t] = "exchange"]
        /\ ub' = (ub \/ frame[c] # "live")
        /\ UNCHANGED eventVars
        /\ UNCHANGED <<frame, st, ip, acc, flag, data, join_sem, stack, wpc, scan_i,
                       queueVars, mpc, halted, histVars>>
        /\ UNCHANGED ownerVars
        /\ UNCHANGED call

\* base.promise().flag.exchange(true, release) and the return
AwaitExchange(th, t) ==
    LET c == Cur(t).c
    IN  /\ At(th, t, "await", "exchange")
        /\ flag' = [flag EXCEPT ![c] = exchange(@)]
        /\ IF AwaiterResumesItself(flag[c])
             THEN /\ ph' = [ph EXCEPT ![t] = "resume"]
                  /\ st' = [st EXCEPT ![t] = "running"]
                  /\ continued' = [continued EXCEPT ![c] = @ + 1]
                  /\ stack' = stack
             ELSE /\ ph' = [ph EXCEPT ![t] = "parked"]
                  /\ stack' = Popped(th)
                  /\ UNCHANGED <<st, continued>>
        /\ ub' = (ub \/ frame[c] # "live")
        /\ UNCHANGED eventVars
        /\ UNCHANGED <<frame, ip, acc, continuation, data, join_sem, wpc, scan_i,
                       queueVars, mpc, halted, nsched, placed, resumedBy, took,
                       enqLog, deqLog>>
        /\ UNCHANGED ownerVars
        /\ UNCHANGED call

\* task_t::await_resume: the result of the awaited task
AwaitResume(th, t) ==
    LET c == Cur(t).c
    IN  /\ At(th, t, "await", "resume")
        /\ acc' = [acc EXCEPT ![t] = @ + data[c]]
        /\ ip' = [ip EXCEPT ![t] = @ + 1]
        /\ ph' = [ph EXCEPT ![t] = "go"]
        /\ ub' = (ub \/ frame[t] # "live" \/ frame[c] # "live" \/ data[c] = Undef)
        /\ UNCHANGED eventVars
        /\ UNCHANGED <<frame, st, promiseVars, stack, wpc, scan_i, queueVars, mpc,
                       halted, histVars>>
        /\ UNCHANGED ownerVars
        /\ UNCHANGED call

(***************************************************************************)
(* Destroying a task handle: ~task_t calls coroutine_.destroy().           *)
(***************************************************************************)
DestroySet(c) == {c} \cup {l \in Locals[c] : frame[l] = "live"}

\* the temporary of `co_await chain2()` dies at the end of the expression
DropTask(th, t) ==
    LET c == Cur(t).c
    IN  /\ At(th, t, "drop", "go")
        /\ frame' = [f \in Tasks |-> IF f \in DestroySet(c) THEN "freed" ELSE frame[f]]
        /\ ip' = [ip EXCEPT ![t] = @ + 1]
        /\ ub' = (ub \/ frame[t] # "live" \/ frame[c] # "live"
                     \/ \E f \in DestroySet(c) : st[f] = "running")
        /\ UNCHANGED eventVars
        /\ UNCHANGED <<st, ph, acc, promiseVars, stack, wpc, scan_i, queueVars, mpc,
                       halted, histVars>>
        /\ UNCHANGED ownerVars
        /\ UNCHANGED call

(***************************************************************************)
(* Completion: co_return, final_suspend and final_awaiter_t.               *)
(***************************************************************************)
\* a faulty return_void: the release of join_sem left out
ReleasesJoinNever(t) == FALSE

\* if constexpr (Joinable) this->join_sem.release()
ReleasesJoin(t) == Joinable[t]

\* promise_type::return_value / return_void: store the result; a joinable
\* task releases join_sem here
ReturnValue(th, t) ==
    /\ At(th, t, "ret", "go")
    /\ data' = IF Joinable[t] THEN data ELSE [data EXCEPT ![t] = RetConst[t] + acc[t]]
    /\ join_sem' = IF ReleasesJoin(t) THEN [join_sem EXCEPT ![t] = @ + 1] ELSE join_sem
    /\ ph' = [ph EXCEPT ![t] = "final"]
    /\ ub' = (ub \/ frame[t] # "live")
    /\ UNCHANGED eventVars
    /\ UNCHANGED <<frame, st, ip, acc, continuation, flag, stack, wpc, scan_i,
                   queueVars, mpc, halted, histVars>>
    /\ UNCHANGED ownerVars
    /\ UNCHANGED call

\* the coroutine reaches its final suspension point (done() becomes true);
\* for a joinable task final_awaiter_t::await_suspend returns noop_coroutine()
FinalSuspend(th, t) ==
    /\ At(th, t, "ret", "final")
    /\ st' = [st EXCEPT ![t] = "final"]
    /\ IF Joinable[t]
         THEN /\ ph' = [ph EXCEPT ![t] = "end"]
              /\ stack' = Popped(th)
         ELSE /\ ph' = [ph EXCEPT ![t] = "fexchange"]
              /\ stack' = stack
    /\ ub' = (ub \/ frame[t] # "live")
    /\ UNCHANGED eventVars
    /\ UNCHANGED <<frame, ip, acc, promiseVars, wpc, scan_i, queueVars, mpc, halted,
                   histVars>>
    /\ UNCHANGED ownerVars
    /\ UNCHANGED call

\* coroutine.promise().flag.exchange(true, acquire)
FinalExchange(th, t) ==
    /\ At(th, t, "ret", "fexchange")
    /\ flag' = [flag EXCEPT ![t] = exchange(@)]
    /\ IF CompleterReadsContinuation(flag[t])
         THEN /\ ph' = [ph EXCEPT ![t] = "fcontinuation"]
              /\ stack' = stack
         ELSE /\ ph' = [ph EXCEPT ![t] = "end"]
              /\ stack' = Popped(th)
    /\ ub' = (ub \/ frame[t] # "live")
    /\ UNCHANGED eventVars
    /\ UNCHANGED <<frame, st, ip, acc, continuation, data, join_sem, wpc, scan_i,
                   queueVars, mpc, halted, histVars>>
    /\ UNCHANGED ownerVars
    /\ UNCHANGED call

\* auto continuation = coroutine.promise().continuation; return it if set
\* (symmetric transfer: the awaiter runs on this thread)
FinalContinuation(th, t) ==
    LET k == continuation[t]
    IN  /\ At(th, t, "ret", "fcontinuation")
        /\ ph' = [f \in Tasks |-> IF f = t THEN "end"
                                  ELSE IF CompleterResumes(k) /\ f = k THEN "resume"
                                  ELSE ph[f]]
        /\ IF CompleterResumes(k)
             THEN /\ stack' = Replaced(th, [task |-> k, mode |-> "run", q |-> -1])
                  /\ st' = [st EXCEPT ![k] = "running"]
                  /\ continued' = [continued EXCEPT ![t] = @ + 1]
                  /\ ub' = (ub \/ frame[t] # "live" \/ st[k] # "suspended"
                               \/ frame[k] # "live")
             ELSE /\ stack' = Popped(th)
                  /\ ub' = (ub \/ frame[t] # "live")
                  /\ UNCHANGED <<st, continued>>
        /\ UNCHANGED eventVars
        /\ UNCHANGED <<frame, ip, acc, promiseVars, wpc, scan_i, queueVars, mpc, halted,
                       nsched, placed, resumedBy, took, enqLog, deqLog>>
        /\ UNCHANGED ownerVars
        /\ UNCHANGED call

(***************************************************************************)
(* The worker loop of work_queue_t.                                        *)
(***************************************************************************)
\* a faulty scan: it starts at the lowest priority
ScanFirstLowest == MinOf(0 .. (COOP_PRIORITY_COUNT - 1))

\* for (int i = COOP_PRIORITY_COUNT - 1; i >= 0; --i), restarted by
\* while (!did_dequeue)
ScanFirst == COOP_PRIORITY_COUNT - 1
ScanNext(i) == IF i = 0 THEN ScanFirst ELSE i - 1

\* sem_.acquire(); if (!active_) return
WorkerAcquire(w) ==
    /\ ~halted
    /\ stack[w] = <<>>
    /\ wpc[w] = "acquire"
    /\ sem_[w] > 0
    /\ sem_' = [sem_ EXCEPT ![w] = @ - 1]
    /\ wpc' = [wpc EXCEPT ![w] = IF wq_active[w] THEN "scan" ELSE "exited"]
    /\ scan_i' = [scan_i EXCEPT ![w] = ScanFirst]
    /\ took' = [took EXCEPT ![w] = NoTake]
    /\ UNCHANGED eventVars
    /\ UNCHANGED <<frame, st, ip, ph, acc, promiseVars, stack, queues_, update_, lost,
                   mpc, ub, halted, continued, nsched, placed, resumedBy, enqLog, deqLog>>
    /\ UNCHANGED ownerVars
    /\ UNCHANGED call

\* queues_[i].try_dequeue(coroutine) finds nothing
WorkerMiss(w) ==
    LET i == scan_i[w]
    IN  /\ ~halted
        /\ wpc[w] = "scan"
        /\ ~mpmc_can_dequeue(queues_[w][i])
        /\ scan_i' = [scan_i EXCEPT ![w] = ScanNext(i)]
        /\ took' = [took EXCEPT ![w].missed = IF i = ScanFirst THEN {i} ELSE @ \cup {i}]
        /\ UNCHANGED eventVars
        /\ UNCHANGED <<frame, st, ip, ph, acc, promiseVars, stack, wpc, queueVars, mpc,
                       ub, halted, continued, nsched, placed, resumedBy, enqLog, deqLog>>
        /\ UNCHANGED ownerVars
        /\ UNCHANGED call

\* queues_[i].try_dequeue(coroutine) succeeds; coroutine.resume()
WorkerDequeue(w) ==
    LET i == scan_i[w]
        h == mpmc_front(queues_[w][i])
    IN  /\ ~halted
        /\ wpc[w] = "scan"
        /\ mpmc_can_dequeue(queues_[w][i])
        /\ h # Null
        /\ queues_' = [queues_ EXCEPT ![w][i] = mpmc_pop(@)]
        /\ wpc' = [wpc EXCEPT ![w] = "acquire"]
        /\ stack' = Pushed(w, h)
        /\ st' = [st EXCEPT ![h] = "running"]
        /\ resumedBy' = [resumedBy EXCEPT ![h] = w]
        /\ took' = [took EXCEPT ![w] = [h |-> h, from |-> i,
                                         hi |-> Len(queues_[w][1]),
                                         lo |-> Len(queues_[w][0]),
                                         missed |-> IF i = ScanFirst THEN {} ELSE @.missed]]
        /\ deqLog' = [deqLog EXCEPT ![w][placed[h].p] = Append(@, h)]
        /\ ub' = (ub \/ st[h] # "suspended" \/ frame[h] # "live")
        /\ UNCHANGED eventVars
        /\ UNCHANGED <<frame, ip, ph, acc, promiseVars, scan_i, sem_, update_, lost, mpc,
                       halted, continued, nsched, placed, enqLog>>
        /\ UNCHANGED ownerVars
        /\ UNCHANGED call

(***************************************************************************)
(* The main thread: `auto task = chain3(x); task.join();` and the          *)
(* destructor of `task`.                                                   *)
(***************************************************************************)
MainCall ==
    /\ ~halted
    /\ mpc = "call"
    /\ StartFrame(MainThread, "root")
    /\ mpc' = "join"
    /\ UNCHANGED eventVars
    /\ UNCHANGED <<ip, ph, acc, promiseVars, wpc, scan_i, queueVars, ub, halted, histVars>>
    /\ UNCHANGED ownerVars
    /\ UNCHANGED call

\* task_t::join: coroutine_.promise().join_sem.acquire()
MainJoin ==
    /\ ~halted
    /\ mpc = "join"
    /\ stack[MainThread] = <<>>
    /\ join_sem["root"] > 0
    /\ join_sem' = [join_sem EXCEPT !["root"] = @ - 1]
    /\ mpc' = "drop"
    /\ ub' = (ub \/ frame["root"] # "live")
    /\ UNCHANGED eventVars
    /\ UNCHANGED <<frame, st, ip, ph, acc, continuation, flag, data, stack, wpc, scan_i,
                   queueVars, halted, histVars>>
    /\ UNCHANGED ownerVars
    /\ UNCHANGED call

\* task_t::~task_t: if (coroutine_) coroutine_.destroy()
MainDrop ==
    /\ ~halted
    /\ mpc = "drop"
    /\ frame' = [f \in Tasks |-> IF f \in DestroySet("root") THEN "freed" ELSE frame[f]]
    /\ mpc' = "done"
    /\ ub' = (ub \/ frame["root"] # "live" \/ \E f \in DestroySet("root") : st[f] = "running")
    /\ UNCHANGED eventVars
    /\ UNCHANGED <<st, ip, ph, acc, promiseVars, stack, wpc, scan_i, queueVars, halted,
                   histVars>>
    /\ UNCHANGED ownerVars
    /\ UNCHANGED call

\* undefined behaviour may end the process at any later moment
Crash ==
    /\ ub
    /\ ~halted
    /\ halted' = TRUE
    /\ UNCHANGED eventVars
    /\ UNCHANGED <<frame, st, ip, ph, acc, promiseVars, stack, wpc, scan_i, queueVars,
                   mpc, ub, histVars>>
    /\ UNCHANGED ownerVars
    /\ UNCHANGED call

\* the main thread starts the next job: `auto task = test_suspend(next);`
MainSpawn ==
    /\ ~halted
    /\ mpc = "spawn"
    /\ stack[MainThread] = <<>>
    /\ \E i \in 1 .. Len(JobOrder) :
          /\ frame[JobOrder[i]] = "none"
          /\ \A j \in 1 .. (i - 1) : frame[JobOrder[j]] # "none"
          /\ StartFrame(MainThread, JobOrder[i])
    /\ UNCHANGED eventVars
    /\ UNCHANGED <<ip, ph, acc, promiseVars, wpc, scan_i, queueVars, mpc, ub, halted,
                   histVars>>
    /\ UNCHANGED ownerVars
    /\ UNCHANGED call

TaskStep(th, t) ==
    \/ CallTask(th, t)
    \/ /\ At(th, t, "suspend", "go")
       /\ \E m \in Cur(t).ms, p \in Cur(t).ps : SuspendSchedule(th, t, m, p)
    \/ AwaitReady(th, t)
    \/ AwaitInstall(th, t)
    \/ AwaitExchange(th, t)
    \/ AwaitResume(th, t)
    \/ DropTask(th, t)
    \/ ReturnValue(th, t)
    \/ FinalSuspend(th, t)
    \/ FinalExchange(th, t)
    \/ FinalContinuation(th, t)

Next ==
    \/ MainCall
    \/ MainJoin
    \/ MainDrop
    \/ \E th \in Threads, t \in Tasks : TaskStep(th, t)
    \/ \E th \in Threads : EnqueueRelease(th)
    \/ \E w \in Workers : WorkerAcquire(w)
    \/ \E w \in Workers : WorkerMiss(w)
    \/ \E w \in Workers : WorkerDequeue(w)
    \/ Crash

Spec == Init /\ [][Next]_vars

JobStep(th, t) ==
    \/ /\ At(th, t, "suspend", "go")
       /\ \E m \in Cur(t).ms, p \in Cur(t).ps : SuspendSchedule(th, t, m, p)
    \/ ReturnValue(th, t)
    \/ FinalSuspend(th, t)

NextSched ==
    \/ MainSpawn
    \/ \E th \in Threads, t \in Jobs : JobStep(th, t)
    \/ \E th \in Threads : EnqueueRelease(th)
    \/ \E w \in Workers : WorkerAcquire(w)
    \/ \E w \in Workers : WorkerMiss(w)
    \/ \E w \in Workers : WorkerDequeue(w)
    \/ Crash

SpecSched == InitSched /\ [][NextSched]_vars

(***************************************************************************)
(* co_await event (event_t::await_ready / await_suspend) and the event     *)
(* overload of scheduler_t::schedule.                                      *)
(***************************************************************************)
\* the thread that runs the event loop
EventThread == cpu_count_ + 1

\* the record schedule(coroutine, event, cpu_affinity, priority) enqueues
Registration(t) ==
    [coroutine |-> t, event |-> EventOf[t], cpu_affinity |-> EventAffinity[EventOf[t]],
     priority |-> EventPriority[EventOf[t]]]

\* SetEvent on a handle: a null handle sets nothing
Signal(sig, e) == IF e \in DOMAIN sig THEN [sig EXCEPT ![e] = TRUE] ELSE sig

\* event_t::await_ready: is_signaled(), a zero-timeout wait, which resets the
\* auto-reset event it finds signaled; await_resume does nothing
WaitReady(th, t) ==
    LET e == Cur(t).c
    IN  /\ At(th, t, "wait", "go")
        /\ IF signaled[e]
             THEN /\ signaled' = [signaled EXCEPT ![e] = FALSE]
                  /\ ip' = [ip EXCEPT ![t] = @ + 1]
                  /\ ph' = ph
             ELSE /\ ph' = [ph EXCEPT ![t] = "register"]
                  /\ UNCHANGED <<signaled, ip>>
        /\ ub' = (ub \/ frame[t] # "live")
        /\ UNCHANGED <<frame, st, acc, promiseVars, stack, wpc, scan_i, queueVars, mpc,
                       halted, histVars>>
        /\ UNCHANGED <<active_, wq_active, epc, ev, events_, event_continuations_,
                       event_count_, event_capacity_, pending_events_, dpc, dq, sigdone,
                       joined, dispatched>>
        /\ UNCHANGED ownerVars
        /\ UNCHANGED call

\* event_t::await_suspend -> schedule(coroutine, event, affinity, priority):
\* pending_events_.enqueue({coroutine, event, cpu_affinity, priority})
WaitRegister(th, t) ==
    /\ At(th, t, "wait", "register")
    /\ st' = [st EXCEPT ![t] = "suspended"]
    /\ ip' = [ip EXCEPT ![t] = @ + 1]
    /\ ph' = [ph EXCEPT ![t] = "go"]
    /\ pending_events_' = mpmc_enqueue(pending_events_, Registration(t))
    /\ stack' = Replaced(th, [task |-> t, mode |-> "sig", q |-> -1])
    /\ ub' = (ub \/ frame[t] # "live")
    /\ UNCHANGED <<frame, acc, promiseVars, wpc, scan_i, queueVars, mpc, halted, histVars>>
    /\ UNCHANGED <<active_, wq_active, epc, ev, signaled, events_, event_continuations_,
                   event_count_, event_capacity_, dpc, dq, sigdone, joined, dispatched>>
    /\ UNCHANGED ownerVars
    /\ UNCHANGED call

\* the rest of the event overload of schedule: events_[0].signal(), then
\* await_suspend returns to whoever resumed or called the coroutine
WaitSignal(th) ==
    /\ ~halted
    /\ stack[th] # <<>>
    /\ Top(th).mode = "sig"
    /\ signaled' = Signal(signaled, events_[0])
    /\ stack' = Popped(th)
    /\ UNCHANGED <<frame, st, ip, ph, acc, promiseVars, wpc, scan_i, queueVars, mpc, ub,
                   halted, histVars>>
    /\ UNCHANGED <<active_, wq_active, epc, ev, events_, event_continuations_,
                   event_count_, event_capacity_, pending_events_, dpc, dq, sigdone,
                   joined, dispatched>>
    /\ UNCHANGED ownerVars
    /\ UNCHANGED call

(***************************************************************************)
(* The event thread of scheduler_t.                                        *)
(***************************************************************************)
\* active_ = true, the first statement of the thread
EventStart ==
    /\ ~halted
    /\ epc = "start"
    /\ active_' = TRUE
    /\ epc' = "loop"
    /\ UNCHANGED <<frame, st, ip, ph, acc, promiseVars, stack, wpc, scan_i, queueVars,
                   mpc, ub, halted, histVars>>
    /\ UNCHANGED <<wq_active, ev, signaled, events_, event_continuations_, event_count_,
                   event_capacity_, pending_events_, dpc, dq, sigdone, joined, dispatched>>
    /\ UNCHANGED ownerVars
    /\ UNCHANGED call

\* while (active_)
EventLoop ==
    /\ ~halted
    /\ epc = "loop"
    /\ epc' = IF active_ THEN "wait" ELSE "exited"
    /\ UNCHANGED <<frame, st, ip, ph, acc, promiseVars, stack, wpc, scan_i, queueVars,
                   mpc, ub, halted, histVars>>
    /\ UNCHANGED <<active_, wq_active, ev, signaled, events_, event_continuations_,
                   event_count_, event_capacity_, pending_events_, dpc, dq, sigdone,
                   joined, dispatched>>
    /\ UNCHANGED ownerVars
    /\ UNCHANGED call

\* the entries wait_many waits on: events_[0 .. event_count_ - 1]
WaitSet == 0 .. (event_count_ - 1)
SignaledEntries == {i \in WaitSet : events_[i] \in DOMAIN signaled /\ signaled[events_[i]]}

\* event_t::wait_many(events_, event_count_): WaitForMultipleObjects fails on
\* a null handle (the loop continues); otherwise it returns the lowest
\* signaled index and resets that auto-reset event
EventWait ==
    /\ ~halted
    /\ epc = "wait"
    /\ IF \E i \in WaitSet : events_[i] = Null
         THEN /\ epc' = "loop"
              /\ UNCHANGED <<ev, signaled>>
         ELSE /\ SignaledEntries # {}
              /\ LET index == MinOf(SignaledEntries)
                 IN  /\ signaled' = [signaled EXCEPT ![events_[index]] = FALSE]
                     /\ ev' = [ev EXCEPT !.index = index]
                     /\ epc' = IF index = 0 THEN "woken" ELSE "fired"
    /\ UNCHANGED <<frame, st, ip, ph, acc, promiseVars, stack, wpc, scan_i, queueVars,
                   mpc, ub, halted, histVars>>
    /\ UNCHANGED <<active_, wq_active, events_, event_continuations_, event_count_,
                   event_capacity_, pending_events_, dpc, dq, sigdone, joined, dispatched>>
    /\ UNCHANGED ownerVars
    /\ UNCHANGED call

\* index == 0: if (!active_) return; size = pending_events_.size_approx()
EventWoken ==
    /\ ~halted
    /\ epc = "woken"
    /\ IF active_
         THEN /\ ev' = [ev EXCEPT !.size = mpmc_size_approx(pending_events_)]
              /\ epc' = "grow"
         ELSE /\ ev' = ev
              /\ epc' = "exited"
    /\ UNCHANGED <<frame, st, ip, ph, acc, promiseVars, stack, wpc, scan_i, queueVars,
                   mpc, ub, halted, histVars>>
    /\ UNCHANGED <<active_, wq_active, signaled, events_, event_continuations_,
                   event_count_, event_capacity_, pending_events_, dpc, dq, sigdone,
                   joined, dispatched>>
    /\ UNCHANGED ownerVars
    /\ UNCHANGED call

\* event_capacity_ = size + event_count_ * 2
GrownCapacity(size) == size + event_count_ * 2
\* events = new event_ref_t[event_capacity_]; memcpy(events_, events, ...)
\* copies the new, empty array over the old one; events_ = events
GrownEvents(cap) == [i \in 0 .. (cap - 1) |-> Null]
\* the records are moved one by one into the new array
GrownContinuations(cap) ==
    [i \in 0 .. (cap - 2) |->
        IF i < event_count_ - 1 THEN event_continuations_[i] ELSE NullRec]

\* if (size + event_count_ > event_capacity_) the arrays are replaced
EventGrow ==
    /\ ~halted
    /\ epc = "grow"
    /\ IF ev.size + event_count_ > event_capacity_
         THEN /\ event_capacity_' = GrownCapacity(ev.size)
              /\ events_' = GrownEvents(GrownCapacity(ev.size))
              /\ event_continuations_' = GrownContinuations(GrownCapacity(ev.size))
         ELSE UNCHANGED <<event_capacity_, events_, event_continuations_>>
    /\ epc' = "drain"
    /\ UNCHANGED <<frame, st, ip, ph, acc, promiseVars, stack, wpc, scan_i, queueVars,
                   mpc, ub, halted, histVars>>
    /\ UNCHANGED <<active_, wq_active, ev, signaled, event_count_, pending_events_, dpc,
                   dq, sigdone, joined, dispatched>>
    /\ UNCHANGED ownerVars
    /\ UNCHANGED call

\* size = pending_events_.try_dequeue_bulk(event_continuations_ +
\* event_count_ - 1, event_capacity_ - event_count_); the events of the new
\* records are appended to the wait set; event_count_ += size
EventDrain ==
    LET size == mpmc_bulk_size(pending_events_, event_capacity_ - event_count_)
    IN  /\ ~halted
        /\ epc = "drain"
        /\ event_continuations_' =
              [i \in DOMAIN event_continuations_ |->
                  IF i >= event_count_ - 1 /\ i < event_count_ - 1 + size
                    THEN pending_events_[i - (event_count_ - 1) + 1]
                    ELSE event_continuations_[i]]
        /\ events_' =
              [i \in DOMAIN events_ |->
                  IF i >= event_count_ /\ i < event_count_ + size
                    THEN pending_events_[i - event_count_ + 1].event
                    ELSE events_[i]]
        /\ pending_events_' = mpmc_bulk_rest(pending_events_, size)
        /\ event_count_' = event_count_ + size
        /\ ev' = [ev EXCEPT !.size = size]
        /\ epc' = "loop"
        /\ UNCHANGED <<frame, st, ip, ph, acc, promiseVars, stack, wpc, scan_i, queueVars,
                       mpc, ub, halted, histVars>>
        /\ UNCHANGED <<active_, wq_active, signaled, event_capacity_, dpc, dq, sigdone,
                       joined, dispatched>>
        /\ UNCHANGED ownerVars
        /\ UNCHANGED call

\* index != 0: schedule(continuation.coroutine, continuation.cpu_affinity,
\* continuation.priority) up to the push of work_queue_t::enqueue; the fields
\* of a record that was never written are indeterminate
EventDispatch ==
    LET index == ev.index
        rec == event_continuations_[index - 1]
        h == rec.coroutine
    IN  /\ ~halted
        /\ epc = "fired"
        /\ \E m \in (IF rec.cpu_affinity = Undef THEN Masks ELSE {rec.cpu_affinity}),
              p \in (IF rec.priority = Undef THEN Priorities ELSE {rec.priority}) :
              LET a == Canonical(m)
                  q == ChosenQueue(a)
                  s == clamp(p)
              IN  /\ update_' = IF EmptyAllowed(a) # {} THEN update_ ELSE update_ + 1
                  /\ queues_' = IF InBounds(q, s)
                                  THEN [queues_ EXCEPT ![q][s] = mpmc_enqueue(@, h)]
                                  ELSE queues_
                  /\ lost' = IF InBounds(q, s) THEN lost ELSE lost \cup {h}
                  /\ ev' = [ev EXCEPT !.q = q]
                  /\ nsched' = IF h = Null THEN nsched ELSE [nsched EXCEPT ![h] = @ + 1]
                  /\ placed' = IF h = Null THEN placed
                               ELSE [placed EXCEPT ![h] =
                                       [m |-> m, p |-> p, q |-> q, s |-> s,
                                        by |-> EventThread, fb |-> (EmptyAllowed(a) = {})]]
                  /\ enqLog' = IF InBounds(q, s) /\ h # Null
                                 THEN [enqLog EXCEPT ![q][p] = Append(@, h)]
                                 ELSE enqLog
                  /\ dispatched' = Append(dispatched,
                                          [index |-> index, event |-> events_[index],
                                           coroutine |-> h, cpu_affinity |-> m,
                                           priority |-> p])
                  /\ ub' = (ub \/ ~InBounds(q, s) \/ rec.cpu_affinity = Undef
                               \/ rec.priority = Undef)
        /\ epc' = "rel"
        /\ UNCHANGED <<frame, st, ip, ph, acc, promiseVars, stack, wpc, scan_i, sem_, mpc,
                       halted, continued, resumedBy, took, deqLog>>
        /\ UNCHANGED <<active_, wq_active, signaled, events_, event_continuations_,
                       event_count_, event_capacity_, pending_events_, dpc, dq, sigdone,
                       joined>>
        /\ UNCHANGED ownerVars
        /\ UNCHANGED call

\* std::swap(x[i], x[j]) on an array
Swapped(x, i, j) ==
    [k \in DOMAIN x |-> IF k = i THEN x[j] ELSE IF k = j THEN x[i] ELSE x[k]]

\* the rest of the dispatch: sem_.release() of the chosen queue, then
\* swap(events_[index], events_[event_count_ - 1]),
\* swap(event_continuations_[index - 1], event_continuations_[event_count_ - 1])
\* and --event_count_
EventCompact ==
    LET index == ev.index
        last == event_count_ - 1
    IN  /\ ~halted
        /\ epc = "rel"
        /\ sem_' = IF ev.q \in Workers THEN [sem_ EXCEPT ![ev.q] = @ + 1] ELSE sem_
        /\ events_' = Swapped(events_, index, last)
        /\ event_continuations_' =
              IF last \in DOMAIN event_continuations_
                THEN Swapped(event_continuations_, index - 1, last)
                ELSE [event_continuations_ EXCEPT ![index - 1] = NullRec]
        /\ ub' = (ub \/ last \notin DOMAIN event_continuations_)
        /\ event_count_' = event_count_ - 1
        /\ epc' = "loop"
        /\ UNCHANGED <<frame, st, ip, ph, acc, promiseVars, stack, wpc, scan_i, queues_,
                       update_, lost, mpc, halted, histVars>>
        /\ UNCHANGED <<active_, wq_active, ev, signaled, event_capacity_, pending_events_,
                       dpc, dq, sigdone, joined, dispatched>>
        /\ UNCHANGED ownerVars
        /\ UNCHANGED call

\* try_dequeue hands the worker a null handle: coroutine.resume() on it is
\* undefined
WorkerDequeueNull(w) ==
    LET i == scan_i[w]
    IN  /\ ~halted
        /\ wpc[w] = "scan"
        /\ mpmc_can_dequeue(queues_[w][i])
        /\ mpmc_front(queues_[w][i]) = Null
        /\ queues_' = [queues_ EXCEPT ![w][i] = mpmc_pop(@)]
        /\ wpc' = [wpc EXCEPT ![w] = "acquire"]
        /\ ub' = TRUE
        /\ UNCHANGED <<frame, st, ip, ph, acc, promiseVars, stack, scan_i, sem_, update_,
                       lost, mpc, halted, histVars>>
        /\ UNCHANGED eventVars
        /\ UNCHANGED ownerVars
        /\ UNCHANGED call

(***************************************************************************)
(* The main thread of the event program: `auto task =                      *)
(* wait_for_event(event); event.signal(); task.join();`, once per event,   *)
(* and then the destructor of the scheduler.                               *)
(***************************************************************************)
WaiterOrder == <<"waiter1", "waiter2">>
MainIdle == ~halted /\ mpc = "event" /\ dpc = "none" /\ stack[MainThread] = <<>>

\* auto task = wait_for_event(event)
MainSpawnWaiter ==
    /\ MainIdle
    /\ \E i \in 1 .. Len(WaiterOrder) :
          /\ frame[WaiterOrder[i]] = "none"
          /\ \A j \in 1 .. (i - 1) : frame[WaiterOrder[j]] # "none"
          /\ StartFrame(MainThread, WaiterOrder[i])
    /\ UNCHANGED <<ip, ph, acc, promiseVars, wpc, scan_i, queueVars, mpc, ub, halted,
                   histVars>>
    /\ UNCHANGED eventVars
    /\ UNCHANGED ownerVars
    /\ UNCHANGED call

\* event.signal()
MainSignalEvent(e) ==
    /\ MainIdle
    /\ e \notin sigdone
    /\ signaled' = Signal(signaled, e)
    /\ sigdone' = sigdone \cup {e}
    /\ UNCHANGED <<frame, st, ip, ph, acc, promiseVars, stack, wpc, scan_i, queueVars,
                   mpc, ub, halted, histVars>>
    /\ UNCHANGED <<active_, wq_active, epc, ev, events_, event_continuations_,
                   event_count_, event_capacity_, pending_events_, dpc, dq, joined,
                   dispatched>>
    /\ UNCHANGED ownerVars
    /\ UNCHANGED call

\* task.join()
MainJoinWaiter(t) ==
    /\ MainIdle
    /\ frame[t] = "live"
    /\ t \notin joined
    /\ join_sem[t] > 0
    /\ join_sem' = [join_sem EXCEPT ![t] = @ - 1]
    /\ joined' = joined \cup {t}
    /\ UNCHANGED <<frame, st, ip, ph, acc, continuation, flag, data, stack, wpc, scan_i,
                   queueVars, mpc, ub, halted, histVars>>
    /\ UNCHANGED <<active_, wq_active, epc, ev, signaled, events_, event_continuations_,
                   event_count_, event_capacity_, pending_events_, dpc, dq, sigdone,
                   dispatched>>
    /\ UNCHANGED ownerVars
    /\ UNCHANGED call

\* ~task_t of a joined task
MainDropWaiter(t) ==
    /\ MainIdle
    /\ t \in joined
    /\ frame[t] = "live"
    /\ frame' = [frame EXCEPT ![t] = "freed"]
    /\ ub' = (ub \/ st[t] = "running")
    /\ UNCHANGED <<st, ip, ph, acc, promiseVars, stack, wpc, scan_i, queueVars, mpc,
                   halted, histVars>>
    /\ UNCHANGED eventVars
    /\ UNCHANGED ownerVars
    /\ UNCHANGED call

(***************************************************************************)
(* scheduler_t::~scheduler_t and work_queue_t::~work_queue_t.              *)
(***************************************************************************)
\* active_ = false
DtorBegin ==
    /\ MainIdle
    /\ \A t \in Waiters : frame[t] \in {"none", "freed"}
    /\ active_' = FALSE
    /\ dpc' = "signal"
    /\ UNCHANGED <<frame, st, ip, ph, acc, promiseVars, stack, wpc, scan_i, queueVars,
                   mpc, ub, halted, histVars>>
    /\ UNCHANGED <<wq_active, epc, ev, signaled, events_, event_continuations_,
                   event_count_, event_capacity_, pending_events_, dq, sigdone, joined,
                   dispatched>>
    /\ UNCHANGED ownerVars
    /\ UNCHANGED call

\* events_[0].signal()
DtorSignal ==
    /\ ~halted
    /\ dpc = "signal"
    /\ signaled' = Signal(signaled, events_[0])
    /\ dpc' = "join_event"
    /\ UNCHANGED <<frame, st, ip, ph, acc, promiseVars, stack, wpc, scan_i, queueVars,
                   mpc, ub, halted, histVars>>
    /\ UNCHANGED <<active_, wq_active, epc, ev, events_, event_continuations_,
                   event_count_, event_capacity_, pending_events_, dq, sigdone, joined,
                   dispatched>>
    /\ UNCHANGED ownerVars
    /\ UNCHANGED call

\* event_thread_.join(); delete[] events_; delete[] event_continuations_
DtorJoinEvent ==
    /\ ~halted
    /\ dpc = "join_event"
    /\ epc = "exited"
    /\ dpc' = "stop_queue"
    /\ dq' = 0
    /\ UNCHANGED <<frame, st, ip, ph, acc, promiseVars, stack, wpc, scan_i, queueVars,
                   mpc, ub, halted, histVars>>
    /\ UNCHANGED <<active_, wq_active, epc, ev, signaled, events_, event_continuations_,
                   event_count_, event_capacity_, pending_events_, sigdone, joined,
                   dispatched>>
    /\ UNCHANGED ownerVars
    /\ UNCHANGED call

\* queues_[i].~work_queue_t(): active_ = false; sem_.release()
DtorStopQueue ==
    /\ ~halted
    /\ dpc = "stop_queue"
    /\ wq_active' = [wq_active EXCEPT ![dq] = FALSE]
    /\ sem_' = [sem_ EXCEPT ![dq] = @ + 1]
    /\ dpc' = "join_queue"
    /\ UNCHANGED <<frame, st, ip, ph, acc, promiseVars, stack, wpc, scan_i, queues_,
                   update_, lost, mpc, ub, halted, histVars>>
    /\ UNCHANGED <<active_, epc, ev, signaled, events_, event_continuations_,
                   event_count_, event_capacity_, pending_events_, dq, sigdone, joined,
                   dispatched>>
    /\ UNCHANGED ownerVars
    /\ UNCHANGED call

\* queues_[i].~work_queue_t(): thread_.join(), and on to the next queue
DtorJoinQueue ==
    /\ ~halted
    /\ dpc = "join_queue"
    /\ wpc[dq] = "exited"
    /\ dq' = dq + 1
    /\ dpc' = IF dq + 1 = cpu_count_ THEN "done" ELSE "stop_queue"
    /\ UNCHANGED <<frame, st, ip, ph, acc, promiseVars, stack, wpc, scan_i, queueVars,
                   mpc, ub, halted, histVars>>
    /\ UNCHANGED <<active_, wq_active, epc, ev, signaled, events_, event_continuations_,
                   event_count_, event_capacity_, pending_events_, sigdone, joined,
                   dispatched>>
    /\ UNCHANGED ownerVars
    /\ UNCHANGED call

WaiterStep(th, t) ==
    \/ WaitReady(th, t)
    \/ WaitRegister(th, t)
    \/ ReturnValue(th, t)
    \/ FinalSuspend(th, t)

NextEvent ==
    \/ MainSpawnWaiter
    \/ \E e \in Events : MainSignalEvent(e)
    \/ \E t \in Waiters : MainJoinWaiter(t)
    \/ \E t \in Waiters : MainDropWaiter(t)
    \/ \E th \in Threads, t \in Waiters : WaiterStep(th, t)
    \/ \E th \in Threads : WaitSignal(th)
    \/ EventStart
    \/ EventLoop
    \/ EventWait
    \/ EventWoken
    \/ EventGrow
    \/ EventDrain
    \/ EventDispatch
    \/ EventCompact
    \/ \E w \in Workers : WorkerAcquire(w)
    \/ \E w \in Workers : WorkerMiss(w)
    \/ \E w \in Workers : WorkerDequeue(w)
    \/ \E w \in Workers : WorkerDequeueNull(w)
    \/ DtorBegin
    \/ DtorSignal
    \/ DtorJoinEvent
    \/ DtorStopQueue
    \/ DtorJoinQueue
    \/ Crash

SpecEvent == InitEvent /\ [][NextEvent]_vars

\* the same program on the scheduler with small arrays
NextGrow ==
    \/ MainSpawnWaiter
    \/ \E e \in Events : MainSignalEvent(e)
    \/ \E t \in Waiters : MainJoinWaiter(t)
    \/ \E t \in Waiters : MainDropWaiter(t)
    \/ \E th \in Threads, t \in Waiters : WaiterStep(th, t)
    \/ \E th \in Threads : WaitSignal(th)
    \/ EventStart
    \/ EventLoop
    \/ EventWait
    \/ EventWoken
    \/ EventGrow
    \/ EventDrain
    \/ EventDispatch
    \/ EventCompact
    \/ \E w \in Workers : WorkerAcquire(w)
    \/ \E w \in Workers : WorkerMiss(w)
    \/ \E w \in Workers : WorkerDequeue(w)
    \/ DtorBegin
    \/ DtorSignal
    \/ DtorJoinEvent
    \/ DtorStopQueue
    \/ DtorJoinQueue
    \/ Crash

SpecGrow == InitGrow /\ [][NextGrow]_vars

(***************************************************************************)
(* Task handles: the constructors, move operations and destructor of       *)
(* task_t.                                                                 *)
(***************************************************************************)
\* a faulty move: the source keeps its handle
MovedFromKeeps(c) == c

\* other.coroutine_ = nullptr
MovedFromValue(c) == Null

\* if (coroutine_) coroutine_.destroy(), applied to the frames fr
DestroyIfSet(fr, c) == IF c = Null THEN fr ELSE [fr EXCEPT ![c] = "freed"]
CountDestroy(n, c) == IF c = Null THEN n ELSE [n EXCEPT ![c] = @ + 1]
\* destroy() of a frame that is not alive is undefined
BadDestroy(c) == c # Null /\ hframe[c] # "live"

\* task_t(std::coroutine_handle<promise_type>), from get_return_object of a
\* new coroutine
HandleCreate(h, f) ==
    /\ mpc = "owner"
    /\ ~alive[h]
    /\ hframe[f] = "none"
    /\ hframe' = [hframe EXCEPT ![f] = "live"]
    /\ coroutine_' = [coroutine_ EXCEPT ![h] = f]
    /\ alive' = [alive EXCEPT ![h] = TRUE]
    /\ moved' = [moved EXCEPT ![h] = FALSE]
    /\ UNCHANGED <<destroys, ub>>
    /\ UNCHANGED <<frame, st, ip, ph, acc, promiseVars, stack, wpc, scan_i, queueVars, mpc,
                   halted, histVars>>
    /\ UNCHANGED eventVars
    /\ UNCHANGED call

\* task_t() noexcept = default
HandleDefault(h) ==
    /\ mpc = "owner"
    /\ ~alive[h]
    /\ coroutine_' = [coroutine_ EXCEPT ![h] = Null]
    /\ alive' = [alive EXCEPT ![h] = TRUE]
    /\ moved' = [moved EXCEPT ![h] = FALSE]
    /\ UNCHANGED <<hframe, destroys, ub>>
    /\ UNCHANGED <<frame, st, ip, ph, acc, promiseVars, stack, wpc, scan_i, queueVars, mpc,
                   halted, histVars>>
    /\ UNCHANGED eventVars
    /\ UNCHANGED call

\* task_t(task_t&& other)
HandleMoveConstruct(h, other) ==
    /\ mpc = "owner"
    /\ ~alive[h]
    /\ alive[other]
    /\ coroutine_' = [coroutine_ EXCEPT ![h] = coroutine_[other],
                                        ![other] = MovedFromValue(coroutine_[other])]
    /\ alive' = [alive EXCEPT ![h] = TRUE]
    /\ moved' = [moved EXCEPT ![h] = FALSE, ![other] = TRUE]
    /\ UNCHANGED <<hframe, destroys, ub>>
    /\ UNCHANGED <<frame, st, ip, ph, acc, promiseVars, stack, wpc, scan_i, queueVars, mpc,
                   halted, histVars>>
    /\ UNCHANGED eventVars
    /\ UNCHANGED call

\* task_t& operator=(task_t&& other)
HandleMoveAssign(h, other) ==
    /\ mpc = "owner"
    /\ alive[h]
    /\ alive[other]
    /\ IF h # other
         THEN /\ hframe' = DestroyIfSet(hframe, coroutine_[h])
              /\ destroys' = CountDestroy(destroys, coroutine_[h])
              /\ ub' = (ub \/ BadDestroy(coroutine_[h]))
              /\ coroutine_' = [coroutine_ EXCEPT ![h] = coroutine_[other],
                                                  ![other] = MovedFromValue(coroutine_[other])]
              /\ moved' = [moved EXCEPT ![h] = FALSE, ![other] = TRUE]
         ELSE UNCHANGED <<hframe, destroys, ub, coroutine_, moved>>
    /\ alive' = alive
    /\ UNCHANGED <<frame, st, ip, ph, acc, promiseVars, stack, wpc, scan_i, queueVars, mpc,
                   halted, histVars>>
    /\ UNCHANGED eventVars
    /\ UNCHANGED call

\* ~task_t()
HandleDestruct(h) ==
    /\ mpc = "owner"
    /\ alive[h]
    /\ hframe' = DestroyIfSet(hframe, coroutine_[h])
    /\ destroys' = CountDestroy(destroys, coroutine_[h])
    /\ ub' = (ub \/ BadDestroy(coroutine_[h]))
    /\ alive' = [alive EXCEPT ![h] = FALSE]
    /\ UNCHANGED <<coroutine_, moved>>
    /\ UNCHANGED <<frame, st, ip, ph, acc, promiseVars, stack, wpc, scan_i, queueVars, mpc,
                   halted, histVars>>
    /\ UNCHANGED eventVars
    /\ UNCHANGED call

NextOwner ==
    \/ \E h \in Handles, f \in Frames : HandleCreate(h, f)
    \/ \E h \in Handles : HandleDefault(h)
    \/ \E h \in Handles, other \in Handles : HandleMoveConstruct(h, other)
    \/ \E h \in Handles, other \in Handles : HandleMoveAssign(h, other)
    \/ \E h \in Handles : HandleDestruct(h)

SpecOwner == InitOwner /\ [][NextOwner]_vars

(***************************************************************************)
(* Single functions of the library applied to arguments: the fallback      *)
(* selection of scheduler_t::schedule.                                     *)
(***************************************************************************)
\* the fallback path of schedule() on a mask a with the counter at u: the
\* index of the queue it passes to enqueue
ApplyFallback(a, u) ==
    /\ ~halted
    /\ mpc = "calls"
    /\ call' = [fn |-> "fallback", a |-> a, b |-> u, status |-> "none",
                r |-> FallbackQueue(a, u)]
    /\ UNCHANGED <<frame, st, ip, ph, acc, promiseVars, stack, wpc, scan_i, queueVars,
                   mpc, ub, halted, histVars>>
    /\ UNCHANGED eventVars
    /\ UNCHANGED ownerVars

\* the values WaitForMultipleObjects returns (event.cpp 21-41): WAIT_OBJECT_0 + i
\* for a signaled entry i, WAIT_ABANDONED_0 + i for an abandoned one,
\* WAIT_TIMEOUT, and WAIT_FAILED = (DWORD)0xFFFFFFFF, the largest value of the
\* result's type, which is kept here as the largest integer of the model
WAIT_OBJECT_0 == 0
WAIT_ABANDONED_0 == 128
WAIT_TIMEOUT == 258
WAIT_FAILED == 2147483647

\* what the system call can return for a wait on count handles
WaitResults(count) ==
    {WAIT_OBJECT_0 + i : i \in 0 .. (count - 1)}
        \cup {WAIT_ABANDONED_0 + i : i \in 0 .. (count - 1)}
        \cup {WAIT_TIMEOUT, WAIT_FAILED}

\* event_ref_t::wait_many: the wait_result_t built from the system's result;
\* index defaults to 0 (event.hpp) where only the status is given
wait_many(result) ==
    IF result = WAIT_FAILED THEN [status |-> "failed", index |-> 0]
    ELSE IF result = WAIT_TIMEOUT THEN [status |-> "timeout", index |-> 0]
    ELSE IF result < WAIT_ABANDONED_0
           THEN [status |-> "normal", index |-> result - WAIT_OBJECT_0]
           ELSE [status |-> "abandoned", index |-> result - WAIT_OBJECT_0]

\* wait_many on count handles for which the system returns result
ApplyWaitMany(count, result) ==
    /\ ~halted
    /\ mpc = "calls"
    /\ call' = [fn |-> "wait_many", a |-> result, b |-> count,
                status |-> wait_many(result).status, r |-> wait_many(result).index]
    /\ UNCHANGED <<frame, st, ip, ph, acc, promiseVars, stack, wpc, scan_i, queueVars,
                   mpc, ub, halted, histVars>>
    /\ UNCHANGED eventVars
    /\ UNCHANGED ownerVars

NextCalls ==
    \/ \E a \in Masks \ {0}, u \in 0 .. MaxCounter : ApplyFallback(a, u)
    \/ \E count \in 1 .. MaxWaitCount :
          \E result \in WaitResults(count) : ApplyWaitMany(count, result)

SpecCalls == InitCalls /\ [][NextCalls]_vars

(***************************************************************************)
(* Properties.                                                             *)
(***************************************************************************)
Awaitable == {t \in Tasks : ~Joinable[t]}
\* the statements of t that await a task
AwaitsOf(t) == {i \in 1 .. Len(Body[t]) : Body[t][i].op = "await"}
\* the task that awaits c, and the statement where it does
Awaiter(c) == CHOOSE t \in Tasks : \E i \in AwaitsOf(t) : Body[t][i].c = c
AwaitIdx(c) == CHOOSE i \in AwaitsOf(Awaiter(c)) : Body[Awaiter(c)][i].c = c
\* the awaiter of c has done every step of its await that decides whether it
\* suspends: it saw c done, or it has made its exchange on c's flag
AwaitDecided(c) ==
    \/ ip[Awaiter(c)] > AwaitIdx(c)
    \/ ip[Awaiter(c)] = AwaitIdx(c) /\ ph[Awaiter(c)] \in {"resume", "parked"}
\* c has done every step of its completion
Completed(c) == ph[c] = "end"

\* C1: an awaiter goes past `co_await B` at most once in every state, and
\* exactly once as soon as both B's completion steps (result store, final
\* suspension, acquire exchange) and the awaiter's steps (await_ready,
\* continuation write, release exchange) are done: it is neither left
\* suspended nor resumed twice, whatever the interleaving.
C1_ResumedExactlyOnce ==
    \A c \in Awaitable :
        /\ continued[c] <= 1
        /\ (Completed(c) /\ AwaitDecided(c)) => continued[c] = 1

\* both sides made their exchange, and the awaiter went on once
C1_Witness ==
    \E c \in Awaitable :
        /\ Completed(c)
        /\ continuation[c] = Awaiter(c)
        /\ flag[c]
        /\ continued[c] = 1

\* what co_return of t delivers: its constant plus what it awaited
RECURSIVE Result(_)
RECURSIVE SumResults(_, _)
SumResults(t, I) ==
    IF I = {} THEN 0
    ELSE LET i == CHOOSE x \in I : TRUE
         IN  Result(Body[t][i].c) + SumResults(t, I \ {i})
Result(t) == RetConst[t] + SumResults(t, AwaitsOf(t))

\* C2: what a task has read with co_await is what the awaited tasks passed to
\* co_return: after each await the awaiter holds the sum of the results of
\* the tasks awaited so far (so the task that awaits the two leaves returns
\* their sum, and the root reads that sum), and a published result is the
\* task's co_return value.
C2_AwaitDeliversResult ==
    /\ \A t \in ChainTasks :
          acc[t] = SumResults(t, {i \in AwaitsOf(t) : i < ip[t]})
    /\ \A c \in Awaitable : data[c] # Undef => data[c] = Result(c)

\* the root has read the sum of the two leaves through the middle task
C2_Witness ==
    /\ ip["root"] > AwaitIdx("mid")
    /\ acc["root"] = RetConst["leaf1"] + RetConst["leaf2"]
    /\ continued["leaf1"] = 1
    /\ continued["leaf2"] = 1

\* join() on the root has returned
JoinReturned == mpc \in {"drop", "done"}
\* the root has executed return_void
Returned(t) == ip[t] = Len(Body[t]) /\ ph[t] \in {"final", "end"}

\* C3: join() never returns early: whenever join() has returned, the
\* coroutine of the joined task is at its final suspension point (or its
\* frame is gone) and no thread is executing inside its frame.
C3_JoinNeverEarly ==
    JoinReturned =>
        /\ st["root"] = "final" \/ frame["root"] = "freed"
        /\ ~InUse("root")

\* from the co_return of the root until join() takes the signal, join_sem
\* holds it; join() takes it once, and only after the co_return
JoinSignalKept ==
    /\ (Returned("root") /\ ~JoinReturned) => join_sem["root"] = 1
    /\ JoinReturned => (Returned("root") /\ join_sem["root"] = 0)

\* the main thread runs: a blocked join_sem.acquire() returns once the
\* semaphore is released, and a thread inside sem_.release() leaves it
FairSpec == Spec /\ WF_vars(MainJoin) /\ WF_vars(EnqueueRelease(MainThread))

\* C4: if a joinable task runs to completion, a single join() on it
\* eventually returns, whether the task completed before join() was called or
\* after it: the completion signal on the join channel is never lost. (A
\* process that undefined behaviour elsewhere has ended returns from nothing.)
C4_JoinEventuallyReturns ==
    /\ []JoinSignalKept
    /\ Returned("root") ~> (JoinReturned \/ halted)

\* the root has completed while join() has not returned yet: the signal waits
C4_Witness ==
    /\ Returned("root")
    /\ st["root"] = "final"
    /\ mpc = "join"
    /\ join_sem["root"] = 1

\* where a handle is held: occurrences in the sub-queues of the work queues,
\* and continuation slots of tasks that have not finished their completion
Occurrences(queue, t) == Cardinality({i \in 1 .. Len(queue) : queue[i] = t})
RECURSIVE SumOver(_, _)
SumOver(S, t) ==
    IF S = {} THEN 0
    ELSE LET x == CHOOSE y \in S : TRUE
         IN  Occurrences(queues_[x[1]][x[2]], t) + SumOver(S \ {x}, t)
InQueues(t) == SumOver(Workers \X (0 .. (COOP_PRIORITY_COUNT - 1)), t)
InSlots(t) == {c \in Tasks : continuation[c] = t /\ ~Completed(c)}
Holders(t) == InQueues(t) + Cardinality(InSlots(t))
\* the threads executing code of t (its body, or an awaiter called from it)
RunEntries(t) ==
    UNION {{<<th, i>> : i \in {j \in 1 .. Len(stack[th]) :
                                  /\ stack[th][j].task = t
                                  /\ stack[th][j].mode = "run"}} : th \in Threads}

Scheduled == {t \in Tasks : nsched[t] > 0}
\* the CPUs whose queues hold the handle of t
QueuesHolding(t) ==
    {w \in Workers : \E i \in 0 .. (COOP_PRIORITY_COUNT - 1) :
                        Occurrences(queues_[w][i], t) > 0}

C7_PriorityClamped ==
    \A t \in Scheduled :
        placed[t].s = (IF placed[t].p = 0 THEN 0 ELSE 1)

\* C8 as stated: whenever a worker dequeues while both of its sub-queues are
\* non-empty, the handle it resumes comes from the priority-1 sub-queue.
C8_HighFirstWhenBothPresent ==
    \A w \in Workers :
        (took[w].h # Null /\ took[w].hi > 0 /\ took[w].lo > 0) => took[w].from = 1

\* C8 amended: a worker resumes a handle from the priority-0 sub-queue only
\* after try_dequeue on the priority-1 sub-queue found nothing in the same
\* pass of the scan, and takes from priority 1 before it looks at priority 0.
C8_HighTriedFirst ==
    \A w \in Workers :
        /\ (took[w].h # Null /\ took[w].from = 0) => 1 \in took[w].missed
        /\ (took[w].h # Null /\ took[w].from = 1) => took[w].missed = {}

\* a worker took the priority-1 handle while a priority-0 handle was waiting
C8_Witness ==
    \E w \in Workers :
        /\ took[w].h # Null
        /\ took[w].from = 1
        /\ took[w].lo > 0
        /\ placed[took[w].h].p = 1

IsPrefix(a, b) == Len(a) <= Len(b) /\ SubSeq(b, 1, Len(a)) = a

\* C9: for the enqueues on one work queue that use the same priority, the
\* order in which the worker resumes the handles is the order in which they
\* were enqueued.
C9_FifoWithinPriority ==
    \A w \in Workers, p \in Priorities : IsPrefix(deqLog[w][p], enqLog[w][p])

\* a worker has resumed two handles of one priority
C9_Witness ==
    \E w \in Workers, p \in Priorities : Len(deqLog[w][p]) = 2

\* C10: a task that executes co_await suspend(...) always suspends and is
\* passed to schedule() exactly once; the code after the suspension point is
\* executed only by a worker that dequeued the handle, never inline by the
\* thread that executed the suspend call; a task started from the main thread
\* is on another thread after its first suspension.
C10_SuspendHandsOver ==
    \A t \in ChainTasks :
        /\ nsched[t] <= 1
        /\ ip[t] > 1 => (nsched[t] = 1 /\ placed[t].by \in Threads)
        /\ \A e \in RunEntries(t) :
              ip[t] > 1 =>
                 /\ resumedBy[t] \in Workers
                 /\ e[1] \in Workers
                 /\ ip[t] = 2 => e[1] = resumedBy[t]

\* the root, started and suspended on the main thread, runs on a worker
C10_Witness ==
    /\ placed["root"].by = MainThread
    /\ ip["root"] = 2
    /\ \E e \in RunEntries("root") : e[1] \in Workers /\ e[1] = resumedBy["root"]

\* the event thread is blocked in wait_many: no entry of the wait set is
\* signaled, and no registering thread has its signal of the wake event to come
EventThreadBlocked ==
    /\ ~halted
    /\ epc = "wait"
    /\ SignaledEntries = {}
    /\ \A i \in WaitSet : events_[i] # Null
    /\ \A th \in Threads : stack[th] = <<>> \/ Top(th).mode # "sig"

\* t registered its handle on its event and has not been scheduled since
AwaitsEvent(t) == frame[t] = "live" /\ st[t] = "suspended" /\ nsched[t] = 0

\* C11: once an event is signaled, the handle registered on it is passed to
\* schedule(handle, affinity, priority) and resumed by a worker; no
\* registration is left behind: the event thread never comes to rest, blocked
\* in wait_many with nothing signaled, while a task whose event has been
\* signaled still waits to be scheduled.
C11_SignaledWaiterResumes ==
    \A t \in Waiters :
        (AwaitsEvent(t) /\ EventOf[t] \in sigdone) => ~EventThreadBlocked

\* C12: when the wait-set entry at index i >= 1 fires, the event thread calls
\* schedule with exactly the handle, affinity and priority that were
\* registered together with that event, and a record is dispatched once.
C12_DispatchesOwnRecord ==
    \A i \in 1 .. Len(dispatched) :
        LET d == dispatched[i]
        IN  /\ d.event \in Events
            /\ d.coroutine \in Waiters
            /\ EventOf[d.coroutine] = d.event
            /\ d.cpu_affinity = EventAffinity[d.event]
            /\ d.priority = EventPriority[d.event]
            /\ \A j \in 1 .. (i - 1) : dispatched[j].coroutine # d.coroutine

\* C15: teardown terminates: ~scheduler_t, waiting in event_thread_.join()
\* after active_ = false and the signal of the wake slot, is never left with
\* the event thread blocked in wait_many and nothing left to signal it.
C15_TeardownTerminates ==
    ~(dpc = "join_event" /\ EventThreadBlocked /\ ~ub)

\* the task handles within their lifetime that refer to frame f
Owners(f) == {h \in Handles : alive[h] /\ coroutine_[h] = f}

\* a frame goes from live to freed in this step only through a handle that
\* referred to it and is dropped or overwritten in the same step
FreedByOwner ==
    \A f \in Frames :
        (hframe[f] = "live" /\ hframe'[f] = "freed") =>
            \E h \in Owners(f) : ~alive'[h] \/ coroutine_'[h] # f

\* C13: after any sequence of move-constructions, move-assignments and
\* destructions of task handles, every live frame is referenced by at most
\* one handle (and by one: it is not leaked); a moved-from handle is empty, so
\* that its destruction destroys nothing; a frame is destroyed only when its
\* owning handle is dropped or overwritten by move-assignment, exactly once.
C13_ExclusiveOwnership ==
    /\ [](\A f \in Frames :
            /\ hframe[f] = "live" => Cardinality(Owners(f)) = 1
            /\ hframe[f] # "live" => Owners(f) = {}
            /\ destroys[f] = (IF hframe[f] = "freed" THEN 1 ELSE 0))
    /\ [](\A h \in Handles : (alive[h] /\ moved[h]) => coroutine_[h] = Null)
    /\ [](~ub)
    /\ [][FreedByOwner]_vars

\* one frame has been destroyed, another is owned by a handle, and a
\* moved-from handle is still within its lifetime
C13_Witness ==
    \E h \in Handles, other \in Handles, f \in Frames, g \in Frames :
        /\ alive[h] /\ coroutine_[h] = f /\ hframe[f] = "live"
        /\ alive[other] /\ moved[other]
        /\ hframe[g] = "freed"

\* C14: once the frame of a joinable task has been destroyed it is never
\* accessed: when the owner's handle destructor, run after join, has destroyed
\* the frame, the coroutine is at its final suspension point and no thread is
\* on its completion path; the frame is destroyed by that destructor alone.
C14_NoUseAfterDestroy ==
    /\ frame["root"] = "freed" => (mpc = "done" /\ st["root"] = "final" /\ ~InUse("root"))
    /\ mpc = "done" => frame["root"] = "freed"

\* the coroutine whose body calls the task function of c; the main thread
\* calls the root
Caller(c) ==
    IF \E t \in Tasks : \E i \in 1 .. Len(Body[t]) : Body[t][i] = Call(c)
      THEN CHOOSE t \in Tasks : \E i \in 1 .. Len(Body[t]) : Body[t][i] = Call(c)
      ELSE Null

\* c runs on top of the thread that called its task function, right above
\* its caller, which therefore does not have the handle yet
RunsOnCaller(c) ==
    \E th \in Threads :
        /\ stack[th] # <<>>
        /\ Top(th) = [task |-> c, mode |-> "run", q |-> -1]
        /\ IF Caller(c) = Null
             THEN th = MainThread /\ Len(stack[th]) = 1
             ELSE Len(stack[th]) > 1 /\ stack[th][Len(stack[th]) - 1].task = Caller(c)

\* the step that creates a frame starts its coroutine on the creating thread
\* and leaves the work queues and their semaphores alone
CreationEnqueuesNothing ==
    \A c \in ChainTasks :
        (frame[c] = "none" /\ frame'[c] = "live") =>
            /\ queues_' = queues_
            /\ sem_' = sem_
            /\ st'[c] = "running"

\* C16: creating a task starts it eagerly: until the coroutine has reached
\* its first suspension point it runs on the calling thread, above its caller,
\* which does not get the handle before; and the creation itself enqueues
\* nothing on any work queue.
C16_EagerStart ==
    /\ [](\A c \in ChainTasks :
            (frame[c] = "live" /\ ip[c] = 1) =>
                (RunsOnCaller(c) /\ nsched[c] = 0 /\ InQueues(c) = 0))
    /\ [][CreationEnqueuesNothing]_vars

\* chain2, called by chain3 on a worker, runs there up to its suspend
C16_Witness ==
    \E w \in Workers :
        /\ Len(stack[w]) = 2
        /\ stack[w][1].task = "root"
        /\ stack[w][2] = [task |-> "mid", mode |-> "run", q |-> -1]
        /\ ip["mid"] = 1

\* worker w is blocked in sem_.acquire() and both its sub-queues are empty
Idle(w) ==
    /\ stack[w] = <<>>
    /\ wpc[w] = "acquire"
    /\ sem_[w] = 0
    /\ size_approx(w) = 0

\* worker w is inside coroutine.resume() of a task other than t
BusyWithOther(w, t) ==
    /\ w \in Workers
    /\ stack[w] # <<>>
    /\ Top(w).mode = "run"
    /\ Top(w).task # t

\* C17: a schedule() call with affinity 0, made while some worker is idle,
\* does not enqueue the handle on the queue of a worker that is running
\* another task.
C17_IdleWorkerPreferred ==
    [][\A t \in Jobs :
          (nsched'[t] = nsched[t] + 1 /\ placed'[t].m = 0 /\ \E w \in Workers : Idle(w))
              => ~BusyWithOther(placed'[t].q, t)]_vars

\* the awaiter of every awaitable task, the statement where it awaits, and
\* the value the awaited task returns, tabulated
AwaiterOf == [c \in Awaitable |-> Awaiter(c)]
AwaitAt == [c \in Awaitable |-> AwaitIdx(c)]
ResultOf == [c \in Awaitable |-> Result(c)]

\* the awaiter of c is inside its `co_await c`, at step p of it
AwaiterAt(c, p) == ip[AwaiterOf[c]] = AwaitAt[c] /\ ph[AwaiterOf[c]] = p

\* the awaiter of c has made its exchange on c's flag: it has written the
\* continuation and is past the exchange of detail::await_suspend
AwaiterExchanged(c) ==
    /\ continuation[c] # Null
    /\ \/ ip[AwaiterOf[c]] > AwaitAt[c]
       \/ AwaiterAt(c, "parked")
       \/ AwaiterAt(c, "resume")
\* c has made the exchange of final_awaiter_t::await_suspend
CompleterExchanged(c) == ph[c] \in {"fcontinuation", "end"}

\* the steps that write c's continuation and that exchange c's flag
InstallStep(c) == AwaiterAt(c, "install") /\ ph'[AwaiterOf[c]] # "install"
AwaiterExchangeStep(c) == AwaiterAt(c, "exchange") /\ ph'[AwaiterOf[c]] # "exchange"
CompleterExchangeStep(c) == ph[c] = "fexchange" /\ ph'[c] # "fexchange"

\* what a step may do to the flag and the continuation of c: the flag stays
\* set; only the two exchanges touch it, each made once, the awaiter's finding
\* the flag set exactly if the completer's came first and the other way
\* round; the continuation is written once, before the awaiter's exchange
FlagStep(c) ==
    /\ flag[c] => flag'[c]
    /\ flag'[c] # flag[c] => (AwaiterExchangeStep(c) \/ CompleterExchangeStep(c))
    /\ AwaiterExchanged(c) => AwaiterExchanged(c)'
    /\ CompleterExchanged(c) => CompleterExchanged(c)'
    /\ AwaiterExchangeStep(c) =>
          /\ ~AwaiterExchanged(c) /\ AwaiterExchanged(c)'
          /\ flag[c] = CompleterExchanged(c)
    /\ CompleterExchangeStep(c) =>
          /\ ~CompleterExchanged(c) /\ CompleterExchanged(c)'
          /\ flag[c] = AwaiterExchanged(c)
    /\ continuation'[c] # continuation[c] => InstallStep(c)
    /\ InstallStep(c) =>
          /\ continuation[c] = Null /\ continuation'[c] = AwaiterOf[c]
          /\ ~AwaiterExchanged(c)
          /\ AwaiterAt(c, "exchange")'

\* C18: the flag of an awaitable task never goes from true back to false; at
\* most two exchanges are made on it, one by the awaiter and one by the
\* completer; when both have happened exactly one of them found false and the
\* other true; the continuation is written at most once, and before the
\* awaiter's exchange.
C18_FlagProtocol ==
    /\ [][\A c \in Awaitable : FlagStep(c)]_vars
    /\ [](\A c \in Awaitable :
            /\ flag[c] = (AwaiterExchanged(c) \/ CompleterExchanged(c))
            /\ AwaiterExchanged(c) => continuation[c] = AwaiterOf[c])

\* both exchanges have been made on a flag: the awaiter's found it clear (it
\* is parked) and the completer's found it set
C18_Witness ==
    \E c \in Awaitable :
        /\ AwaiterAt(c, "parked")
        /\ ph[c] = "fcontinuation"
        /\ flag[c]
        /\ continuation[c] = AwaiterOf[c]

\* the completer c, on thread th, leaves final_awaiter_t::await_suspend with
\* the handle of its awaiter: the awaiter runs next on th, and no work queue,
\* semaphore or schedule() count changes
TransfersToAwaiter(c, th) ==
    /\ stack'[th] # <<>>
    /\ stack'[th][Len(stack'[th])] = [task |-> AwaiterOf[c], mode |-> "run", q |-> -1]
    /\ Len(stack'[th]) = Len(stack[th])
    /\ st'[AwaiterOf[c]] = "running"
    /\ UNCHANGED <<queues_, sem_, nsched, enqLog>>

\* C19: whenever the completer's exchange on B.flag returns true,
\* B.continuation is the handle of the task awaiting B (never null), and the
\* completing thread resumes that awaiter itself, without enqueueing it.
C19_CompleterResumesAwaiter ==
    /\ [](\A c \in Awaitable :
            ph[c] = "fcontinuation" =>
                (continuation[c] # Null /\ continuation[c] = AwaiterOf[c]))
    /\ [][\A c \in Awaitable : \A th \in Threads :
            (ph[c] = "fcontinuation" /\ ph'[c] # "fcontinuation"
                /\ stack[th] # <<>> /\ Top(th).task = c)
              => TransfersToAwaiter(c, th)]_vars

\* a completer that found the flag set has handed its worker to the awaiter,
\* which was scheduled once, by its own suspend
C19_Witness ==
    \E c \in Awaitable, w \in Workers :
        /\ ph[c] = "end"
        /\ resumedBy[c] = w
        /\ stack[w] # <<>>
        /\ Top(w).task = AwaiterOf[c]
        /\ AwaiterAt(c, "resume")
        /\ resumedBy[AwaiterOf[c]] # w
        /\ nsched[AwaiterOf[c]] = 1

\* A is at `co_await B` and has not called await_ready yet
AtAwait(a, c) == ip[a] = AwaitAt[c] /\ ph[a] = "go" /\ frame[a] = "live"

\* the awaiter of c went past await_ready without suspending: it has decided
\* and no continuation was installed
SawReady(c) ==
    /\ continuation[c] = Null
    /\ \/ ip[AwaiterOf[c]] > AwaitAt[c]
       \/ AwaiterAt(c, "resume")

\* C20: when B is at its final suspension point as A executes `co_await B`,
\* A does not suspend (it stays running on its thread), the await installs no
\* continuation and makes no exchange on B.flag, and A reads B's result.
C20_ReadyAwaitLeavesPromise ==
    /\ [][\A c \in Awaitable :
            LET a == AwaiterOf[c]
            IN  (AtAwait(a, c) /\ st[c] = "final" /\ ph'[a] # "go") =>
                    /\ ph'[a] = "resume"
                    /\ st'[a] = "running"
                    /\ stack' = stack
                    /\ UNCHANGED <<continuation, flag>>]_vars
    /\ [][\A c \in Awaitable :
            LET a == AwaiterOf[c]
            IN  (SawReady(c) /\ ip[a] = AwaitAt[c] /\ ip'[a] # ip[a]) =>
                    /\ acc'[a] = acc[a] + ResultOf[c]
                    /\ UNCHANGED <<continuation, flag>>]_vars
    /\ [](\A c \in Awaitable :
            SawReady(c) =>
                /\ ~AwaiterExchanged(c)
                /\ flag[c] = CompleterExchanged(c)
                /\ AwaitAt[c] = ip[AwaiterOf[c]] => AwaiterAt(c, "resume"))

\* chain2 found its first chain1 done and has read its result
C20_Witness ==
    /\ SawReady("leaf1")
    /\ ip["mid"] > AwaitAt["leaf1"]
    /\ acc["mid"] >= ResultOf["leaf1"]
    /\ flag["leaf1"]

\* the sub-queues, of the queues qs, that hold the handle of t
HeldIn(qs, t) ==
    {x \in Workers \X (0 .. (COOP_PRIORITY_COUNT - 1)) :
        Occurrences(qs[x[1]][x[2]], t) > 0}

\* this step is a call schedule(handle of t, m, priority)
ScheduleStep(t) == nsched'[t] = nsched[t] + 1

\* after the step the handle of t is in the queues once, on CPU q
EnqueuedOnceOn(t, q) ==
    /\ \E s \in 0 .. (COOP_PRIORITY_COUNT - 1) :
          /\ HeldIn(queues_', t) = {<<q, s>>}
          /\ Occurrences(queues_'[q][s], t) = 1
    /\ t \notin lost'

\* C21: a schedule() call that finds an allowed CPU with an empty queue
\* enqueues the handle exactly once, on the lowest-index such CPU, and leaves
\* the rotation counter unchanged.
C21_FirstEmptyQueue ==
    [][\A t \in Jobs :
          (ScheduleStep(t) /\ EmptyAllowed(Canonical(placed'[t].m)) # {}) =>
              /\ placed'[t].q = MinOf(EmptyAllowed(Canonical(placed'[t].m)))
              /\ EnqueuedOnceOn(t, placed'[t].q)
              /\ update_' = update_]_vars

\* the n-th set bit of mask a, counted from the least significant (n = 0)
NthSetBit(a, n) ==
    CHOOSE i \in BitSet(a) : Cardinality({j \in BitSet(a) : j < i}) = n

\* C22: on the fallback path the queue chosen is the n-th set bit of the
\* mask, n being the index computed from the rotation counter, for every
\* mask and every counter value.
C22_FallbackPicksNthBit ==
    call.fn = "fallback" =>
        call.r = NthSetBit(call.a, KroneckerIndex(call.b, call.a))

\* C23: an affinity mask of 0 is canonicalized to the mask with exactly the
\* bits 0..C-1 set: every schedule() call made with mask 0 works on the set
\* of the machine's CPUs.
C23_ZeroMaskIsAllCpus ==
    \A t \in Jobs :
        (nsched[t] > 0 /\ placed[t].m = 0) =>
            BitSet(Canonical(placed[t].m)) = Workers

\* C24: every schedule() call, whatever the affinity mask and the state of
\* the queues, enqueues the handle on exactly one work queue, whose index is
\* in 0..C-1 (for a priority that names one of the sub-queues the handle is
\* then in that queue once and in no other).
C24_QueueIndexInRange ==
    [][\A t \in Jobs :
          ScheduleStep(t) =>
              /\ placed'[t].q \in Workers
              /\ placed'[t].p < COOP_PRIORITY_COUNT =>
                    EnqueuedOnceOn(t, placed'[t].q)]_vars

\* C25: entry 0 of the wait set is the scheduler's wake handle in every
\* reachable state: draining, growing and compacting never move, overwrite
\* or lose it.
C25_WakeSlotStays == events_[0] = WakeEvent

\* the live entries of the wait set after the wake slot, and the live records
LiveEntries == 1 .. (event_count_ - 1)
LiveEvents == {events_[j] : j \in LiveEntries}
LiveRecords == {event_continuations_[j - 1] : j \in LiveEntries}
\* the record registered with event e
RecordOf(e) == Registration(CHOOSE t \in Waiters : EventOf[t] = e)

\* the event thread finishes a dispatch: the swaps and --event_count_
CompactStep == epc = "rel" /\ epc' # "rel"

\* C26: after the event thread has dispatched entry i and compacted, the
\* live entries of the wait set and of the record array are the previous
\* ones without the dispatched one, and for every live index j >= 1 the
\* record paired with wait-set entry j is the one registered with that event.
C26_CompactionKeepsPairs ==
    [][CompactStep =>
          /\ LiveEvents' = LiveEvents \ {events_[ev.index]}
          /\ LiveRecords' = LiveRecords \ {event_continuations_[ev.index - 1]}
          /\ \A j \in LiveEntries' :
                /\ events_'[j] \in Events
                /\ event_continuations_'[j - 1] = RecordOf(events_'[j])]_vars

\* the event thread replaces the arrays by larger ones
GrowStep ==
    /\ epc = "grow" /\ epc' # "grow"
    /\ ev.size + event_count_ > event_capacity_
\* the event thread takes the pending registrations into the arrays
DrainStep == epc = "drain" /\ epc' # "drain"

\* C27: when the arrays grow, every wait-set entry and record that was live
\* is in the new arrays, unchanged and at the same index, and the drained
\* registrations are appended after them.
C27_GrowthKeepsEntries ==
    [][/\ GrowStep =>
            /\ \A i \in 0 .. (event_count_ - 1) : events_'[i] = events_[i]
            /\ \A i \in 0 .. (event_count_ - 2) :
                  event_continuations_'[i] = event_continuations_[i]
       /\ DrainStep =>
            /\ \A i \in 0 .. (event_count_ - 1) : events_'[i] = events_[i]
            /\ \A i \in 0 .. (event_count_ - 2) :
                  event_continuations_'[i] = event_continuations_[i]
            /\ \A k \in 1 .. (event_count_' - event_count_) :
                  /\ event_continuations_'[event_count_ - 2 + k] = pending_events_[k]
                  /\ events_'[event_count_ - 1 + k] = pending_events_[k].event]_vars

\* the entry of a wait_many call that the system reported as abandoned
AbandonedEntry == call.a - WAIT_ABANDONED_0
\* C28: when wait_many reports abandoned for an entry, the index it returns
\* identifies that entry and lies in 0 .. count-1, as for status normal.
C28_AbandonedIndexInRange ==
    (call.fn = "wait_many" /\ call.status = "abandoned") =>
        /\ call.r \in 0 .. (call.b - 1)
        /\ call.r = AbandonedEntry

\* the event thread's step on a failed wait (scheduler.cpp 56-60): back to
\* the head of the loop with nothing scheduled and its arrays as they were
WaitFailedStep == epc = "wait" /\ epc' = "loop"
FailedWaitChangesNothing ==
    [][WaitFailedStep =>
          UNCHANGED <<events_, event_continuations_, event_count_, event_capacity_,
                      pending_events_, queueVars, histVars>>]_vars

\* 1 while worker w is in its retry scan, having passed the semaphore
Scanning(w) == IF wpc[w] = "scan" THEN 1 ELSE 0
\* C29: the permits of a work queue's semaphore, the one its worker holds
\* while it scans included, never exceed the handles pushed on the queue and
\* not yet dequeued while the queue is active, so a scanning worker always
\* has a handle to find.
C29_PermitsCoverHandles ==
    \A w \in Workers :
        /\ wq_active[w] => sem_[w] + Scanning(w) <= size_approx(w)
        /\ wpc[w] = "scan" => size_approx(w) >= 1

\* this step takes a handle out of a sub-queue of work queue q
TakeStep(q) ==
    \E i \in 0 .. (COOP_PRIORITY_COUNT - 1) : Len(queues_'[q][i]) < Len(queues_[q][i])
\* C30: a handle enqueued on work queue q is resumed at most once per
\* enqueue, and a handle leaves a queue only through the scan of that
\* queue's own worker, which resumes it on its own thread; no worker takes a
\* handle from another queue.
C30_OwnWorkerOnly ==
    /\ [](\A q \in Workers, p \in Priorities, t \in Tasks :
             Occurrences(deqLog[q][p], t) <= Occurrences(enqLog[q][p], t))
    /\ [][\A q \in Workers : TakeStep(q) =>
             \E i \in 0 .. (COOP_PRIORITY_COUNT - 1) :
                /\ wpc[q] = "scan"
                /\ queues_[q][i] # <<>>
                /\ queues_' = [queues_ EXCEPT ![q][i] = Tail(@)]
                /\ \A th \in Threads \ {q} : stack'[th] = stack[th]
                /\ Head(queues_[q][i]) \in Tasks =>
                      /\ placed[Head(queues_[q][i])].q = q
                      /\ resumedBy'[Head(queues_[q][i])] = q
                      /\ stack'[q] = <<[task |-> Head(queues_[q][i]), mode |-> "run",
                                        q |-> -1]>>]_vars

\* two handles have been resumed, each by the worker of the queue it was
\* enqueued on, on different workers
C30_Witness ==
    \E t \in Jobs, u \in Jobs :
        /\ resumedBy[t] \in Workers
        /\ resumedBy[u] \in Workers
        /\ resumedBy[t] # resumedBy[u]
        /\ resumedBy[t] = placed[t].q
        /\ resumedBy[u] = placed[u].q
        /\ placed[t].by # resumedBy[t]

\* the completing thread of c is inside final_awaiter_t::await_suspend, with
\* accesses to c's promise still ahead of it
InFinalAwaiter(c) == st[c] = "final" /\ ph[c] \in {"fexchange", "fcontinuation"}
\* C31: the frame of an awaitable task is never destroyed while its
\* completing thread is still in the task's final-suspension step: when the
\* frame is freed, the exchange on the task's flag and the read of its
\* continuation are over.
C31_CompleterDoneBeforeDestroy ==
    \A c \in Awaitable : frame[c] = "freed" => (~InFinalAwaiter(c) /\ ~InUse(c))

\* every thread runs: a worker blocked in sem_.acquire() passes once a permit
\* is there, a scanning worker goes on scanning, and a thread inside a
\* coroutine or inside enqueue() takes its next step
FairSched ==
    /\ SpecSched
    /\ \A w \in Workers :
          WF_vars(WorkerAcquire(w)) /\ WF_vars(WorkerMiss(w)) /\ WF_vars(WorkerDequeue(w))
    /\ \A th \in Threads :
          WF_vars(EnqueueRelease(th)) /\ WF_vars(\E t \in Jobs : JobStep(th, t))

\* the handle of t has been passed to schedule() and not been resumed since
Waiting(t) == nsched[t] > 0 /\ resumedBy[t] = -1
\* C32: every handle enqueued on a work queue is eventually dequeued and
\* resumed by that queue's worker, whatever the priority it was enqueued with.
C32_EnqueuedEventuallyResumed ==
    \A t \in Jobs : Waiting(t) ~> (resumedBy[t] \in Workers \/ halted)

\* thread th is in the event overload of schedule(), between its push on the
\* pending-events channel and events_[0].signal()
Registering(th) == stack[th] # <<>> /\ Top(th).mode = "sig"
\* the event thread is about to replace and free the arrays
GrowthDue == epc = "grow" /\ ev.size + event_count_ > event_capacity_
\* thread th executes events_[0].signal()
SignalStep(th) == Registering(th) /\ stack' = Popped(th)
\* the arrays change only in steps of the event thread
WrittenByEventThreadOnly ==
    [][(events_' # events_ \/ event_continuations_' # event_continuations_)
          => epc' # epc]_vars
\* C33: no thread is about to read events_[0] in a registration while the
\* event thread replaces and frees the wait-set array, and the handle a
\* registering thread signals is the live wake handle.
C33_NoAccessDuringGrowth ==
    /\ [](\A th \in Threads : ~(GrowthDue /\ Registering(th)))
    /\ [][\A th \in Threads : SignalStep(th) => events_[0] = WakeEvent]_vars

\* the indices of events_ and of event_continuations_ the arrays have room for
EventSlots == 0 .. (event_capacity_ - 1)
RecordSlots == 0 .. (event_capacity_ - 2)
\* C34: in every state of the event thread 1 <= event_count_ <=
\* event_capacity_, and the indices it is about to use while draining,
\* dispatching and compacting are inside the arrays: wait-set indices below
\* event_capacity_, record indices below event_capacity_ - 1.
C34_AccessesInBounds ==
    /\ 1 <= event_count_
    /\ event_count_ <= event_capacity_
    /\ DOMAIN events_ = EventSlots
    /\ DOMAIN event_continuations_ = RecordSlots
    /\ epc = "drain" =>
          event_count_ + mpmc_bulk_size(pending_events_, event_capacity_ - event_count_)
              <= event_capacity_
    /\ epc = "fired" => (ev.index \in EventSlots /\ (ev.index - 1) \in RecordSlots)
    /\ epc = "rel" =>
          /\ {ev.index, event_count_ - 1} \subseteq EventSlots
          /\ {ev.index - 1, event_count_ - 1} \subseteq RecordSlots

====
